---- MODULE Spec2Model ----
(***************************************************************************)
(* Deferred values of constructutils (src/constructutils/deferred.py):     *)
(* one build (encode) of a schema made of plain bytes, Struct contexts,    *)
(* Prefixed (length-prefixed, buffer-then-splice) regions, DeferredValue   *)
(* placeholders, WriteDeferredValue patches and CheckDeferredValues.       *)
(***************************************************************************)
EXTENDS Integers, Sequences, FiniteSets, TLC

\* ---------------------------------------------------------------- bounds
MaxBytes == 4       \* bytes one build may produce (headers included)
MaxDepth == 3       \* nesting depth of Struct / Prefixed frames
MaxSlots == 2       \* DeferredValue fields built in one build

\* ---------------------------------------------------------------- inputs
ByteVals == {1}                 \* values of plain Byte fields
Placeholders == {0}             \* placeholder values of DeferredValue
Values == {0, 1}                \* values a WriteDeferredValue writes
Names == <<"a", "b", "c", "d">> \* the build paths of the DeferredValue fields
Subcons == {"Byte", "Int16ub", "GreedyBytes"}
LengthFields == {"Byte", "Int16ub"}

None == <<>>
Some(v) == <<v>>

\* ---------------------------------------------------------------- codecs
\* hash_func(data).digest(): a hash of one byte, 0 or 1, which
\* depends on the bytes and on their order
RECURSIVE HashState(_, _)
HashState(data, k) ==
    IF k = 0 THEN 0
    ELSE IF HashState(data, k - 1) = 0 /\ data[k] = 0 THEN 1 ELSE 0

hash_func(data) == <<HashState(data, Len(data))>>

\* ChecksumRaw.__init__: Bytes(hash_func(b'').digest_size)
digest_size == Len(hash_func(<<>>))

\* subcon.sizeof(): the fixed size, or -1 where construct raises SizeofError
Sizeof(subcon) ==
    CASE subcon = "Byte" -> 1
      [] subcon = "Int16ub" -> 2
      [] subcon = "ChecksumRaw" -> digest_size
      [] OTHER -> 0 - 1

\* subcon._build(v): the bytes written, or <<-1>> where struct.pack fails
\* (FormatFieldError); Int16ub is big-endian; ChecksumRaw, which is
\* Hex(Bytes(digest_size)), writes the digest it is given
Encode(subcon, v) ==
    CASE subcon = "Byte" -> IF v >= 0 /\ v < 256 THEN <<v>> ELSE <<0 - 1>>
      [] subcon = "Int16ub" ->
            IF v >= 0 /\ v < 65536 THEN <<v \div 256, v % 256>> ELSE <<0 - 1>>
      [] subcon = "ChecksumRaw" ->
            IF Len(v) = digest_size THEN v ELSE <<0 - 1>>
      [] OTHER -> <<0 - 1>>

EncodeFails(subcon, v) == Encode(subcon, v) = <<0 - 1>>

\* ---------------------------------------------------------------- streams
\* io.BytesIO: the bytes and the position
NewStream == [data |-> <<>>, pos |-> 0]

RECURSIVE Zeros(_)
Zeros(n) == IF n <= 0 THEN <<>> ELSE <<0>> \o Zeros(n - 1)

stream_tell(s) == s.pos

stream_seek(s, offset) == [s EXCEPT !.pos = offset]

\* BytesIO.write at the position: overwrites, extends, zero-fills a gap
stream_write(s, bs) ==
    LET padded == IF s.pos > Len(s.data)
                  THEN s.data \o Zeros(s.pos - Len(s.data)) ELSE s.data
    IN [data |-> SubSeq(padded, 1, s.pos) \o bs
                   \o SubSeq(padded, s.pos + Len(bs) + 1, Len(padded)),
        pos |-> s.pos + Len(bs)]

\* stream_read succeeds only if `length` bytes are available
CanRead(s, length) == s.pos + length <= Len(s.data)

ReadData(s, length) == SubSeq(s.data, s.pos + 1, s.pos + length)

\* position after stream.read(length), also after a short read
AfterRead(s, length) ==
    [s EXCEPT !.pos = IF CanRead(s, length) THEN s.pos + length
                      ELSE IF s.pos > Len(s.data) THEN s.pos ELSE Len(s.data)]

\* ---------------------------------------------------------------- state
VARIABLES
    stack,       \* active _build frames, outermost first
    streams,     \* streams[1]: the outermost stream; then one per Prefixed
    ledger,      \* root context's _deferred_list of DeferredMeta
    where,       \* per ledger entry: the stream and offset its placeholder
                 \* bytes are at now, and the stream they were written to
    pc,          \* "building" or "parsing", "failed" (an exception left
                 \* build or parse), "done"
    lastOp,      \* the last operation and its outcome
    context,     \* the fields the Struct has produced so far, in order
    instances,   \* root context's _checksum_meta list of checksum metas
    params,      \* the keyword arguments of the parse or build call
    other,       \* a second build call, begun or not, while it is not running
    construct    \* the construct module: the function that is Struct._parse

\* the state of the capture and checksum layers, which the constructs of
\* deferred.py leave alone
layerVars == <<context, instances, params, other, construct>>

vars == <<stack, streams, ledger, where, pc, lastOp, context, instances, params,
         other, construct>>

\* op: the operation; res: "ok" or the exception it raised; slot: the ledger
\* entry it was about; val: the value it wrote, the subcon of a constructor;
\* evaluated: whether the value expression was evaluated; paths: the paths
\* the error names
Op(op, res, slot, val, evaluated, paths) ==
    [op |-> op, res |-> res, slot |-> slot, val |-> val,
     evaluated |-> evaluated, paths |-> paths]

\* __orig_attr: the attribute by which a patched Struct._parse is known
orig_attr == "__io_patched_orig__"

\* a function: the attributes set on it, outermost first; `patched` has
\* orig_attr, whose value is the function that follows, and the function
\* of the construct package has none
Struct_parse_orig == <<>>

\* the root context of a build call: the Container construct makes for the
\* call, on which _get_deferred_list keeps the list
RootContext(deferred_list) == [deferred_list |-> deferred_list]

\* a build call that is not running: its number, its frames, streams and
\* root context, and where it stands
Invocation(call, st, ss, root, wh, at, op) ==
    [call |-> call, stack |-> st, streams |-> ss, root |-> root, where |-> wh,
     pc |-> at, lastOp |-> op]

DeferredErrors ==
    {"DeferredError_sizeof", "DeferredError_expected_none",
     "DeferredError_not_meta", "DeferredError_placeholder",
     "DeferredError_never_written"}

Init ==
    /\ stack = <<>>
    /\ streams = <<NewStream>>
    /\ ledger = <<>>
    /\ where = <<>>
    /\ pc = "building"
    /\ lastOp = Op("init", "ok", 0, None, FALSE, <<>>)
    /\ context = <<>>
    /\ instances = <<>>
    /\ params = [skip_verify_checksums |-> FALSE]
    /\ other = Invocation(2, <<>>, <<NewStream>>, RootContext(<<>>), <<>>,
                          "building", Op("init", "ok", 0, None, FALSE, <<>>))
    /\ construct = [Struct_parse |-> <<orig_attr>> \o Struct_parse_orig]

\* the stream the traversal is writing to: the innermost Prefixed buffer
Cur == Len(streams)

RECURSIVE SumLen(_, _)
SumLen(ss, k) == IF k = 0 THEN 0 ELSE Len(ss[k].data) + SumLen(ss, k - 1)

RECURSIVE PendingHeaders(_, _)
PendingHeaders(st, k) ==
    IF k = 0 THEN 0
    ELSE (IF st[k].kind = "Prefixed" THEN Sizeof(st[k].lengthfield) ELSE 0)
         + PendingHeaders(st, k - 1)

\* bytes the finished build will have if nothing more is written
Produced == SumLen(streams, Len(streams)) + PendingHeaders(stack, Len(stack))

\* ---------------------------------------------------------------- contexts
\* Struct._build opens a context whose _io is the stream it was given;
\* Prefixed._build opens a new BytesIO and no context.
StructFrame(io) == [kind |-> "Struct", io |-> io, lengthfield |-> "none"]
PrefixedFrame(lf) == [kind |-> "Prefixed", io |-> 0, lengthfield |-> lf]

\* walks the contexts from the innermost (index k of the stack) to the root
\* context, which has no _io, adding the position of every stream that
\* differs from the one seen before
RECURSIVE collect(_, _, _, _)
collect(ss, st, k, prev_stream) ==
    IF k = 0 THEN 0
    ELSE IF st[k].kind # "Struct" THEN collect(ss, st, k - 1, prev_stream)
    ELSE (IF st[k].io # prev_stream THEN stream_tell(ss[st[k].io]) ELSE 0)
         + collect(ss, st, k - 1, st[k].io)

\* inspect.stack(): lengthfield.sizeof() of every Prefixed._build frame
PrefixedOnStack(st) == PendingHeaders(st, Len(st))

\* DeferredValue.__get_offset_in_outer_stream, called with stream ss[cur]
GetOffsetInOuterStream(ss, st, cur) ==
    stream_tell(ss[cur]) + collect(ss, st, Len(st), cur) + PrefixedOnStack(st)

\* get_root_stream: the _io of the outermost context that has one, 0 if none
RECURSIVE get_root_stream(_, _)
get_root_stream(st, k) ==
    IF k > Len(st) THEN 0
    ELSE IF st[k].kind = "Struct" THEN st[k].io
    ELSE get_root_stream(st, k + 1)

\* getattr(context, '_io') of the innermost context, 0 if it has none
RECURSIVE context_io(_, _)
context_io(st, k) ==
    IF k = 0 THEN 0
    ELSE IF st[k].kind = "Struct" THEN st[k].io
    ELSE context_io(st, k - 1)

\* ---------------------------------------------------------------- ledger
\* an entry that counts as written from the start
DeferredMeta_written(subcon, path, target_offset, placeholder_data) ==
    [subcon |-> subcon, path |-> path, target_offset |-> target_offset,
     placeholder_data |-> placeholder_data,
     new_value |-> None, new_value_written |-> TRUE]

\* DeferredMeta(subcon, path, target_offset, placeholder_data): new_value
\* and new_value_written take their defaults, None and False
DeferredMeta(subcon, path, target_offset, placeholder_data) ==
    [subcon |-> subcon, path |-> path, target_offset |-> target_offset,
     placeholder_data |-> placeholder_data,
     new_value |-> None, new_value_written |-> FALSE]

Unresolved == {i \in 1..Len(ledger) : ~ledger[i].new_value_written}

Min(S) == CHOOSE x \in S : \A y \in S : x <= y

\* the exception leaves every _build frame and ends the build
Fail(op, res, slot, val, evaluated, paths) ==
    /\ pc' = "failed"
    /\ stack' = <<>>
    /\ lastOp' = Op(op, res, slot, val, evaluated, paths)

Done(op, slot, val, evaluated) ==
    /\ pc' = "building"
    /\ lastOp' = Op(op, "ok", slot, val, evaluated, <<>>)

\* a step of the traversal engine that is no operation of this package
Step == Done("step", 0, None, FALSE)

\* ---------------------------------------------------------------- schema
\* a constructor that does not ask for the size
SizeofNeverRaises(subcon) == FALSE

\* DeferredValue.__init__, lines 91-94: subcon.sizeof() raised SizeofError
SizeofRaises(subcon) == Sizeof(subcon) < 0

\* the DeferredValue objects: those whose constructor returned
DeferredValues ==
    {dv \in [subcon : Subcons, placeholder : Placeholders] :
        ~SizeofRaises(dv.subcon)}

\* DeferredValue.__init__(subcon, placeholder), while the schema is defined
DeferredValue_init(subcon, placeholder) ==
    /\ pc = "building"
    /\ UNCHANGED layerVars
    /\ stack = <<>> /\ streams = <<NewStream>> /\ ledger = <<>>
    /\ lastOp' = Op("DeferredValue.__init__",
                    IF SizeofRaises(subcon) THEN "DeferredError_sizeof"
                    ELSE "ok",
                    0, Some(subcon), FALSE, <<>>)
    /\ UNCHANGED <<stack, streams, ledger, where, pc>>

\* ---------------------------------------------------------------- traversal
\* a plain Byte field of the schema
Byte_build(b) ==
    /\ pc = "building"
    /\ UNCHANGED layerVars
    /\ Produced + 1 <= MaxBytes
    /\ streams' = [streams EXCEPT ![Cur] = stream_write(@, <<b>>)]
    /\ Step
    /\ UNCHANGED <<stack, ledger, where>>

\* Struct._build begins: a new context with _io = the current stream
Struct_enter ==
    /\ pc = "building"
    /\ UNCHANGED layerVars
    /\ Len(stack) < MaxDepth
    /\ stack' = Append(stack, StructFrame(Cur))
    /\ Step
    /\ UNCHANGED <<streams, ledger, where>>

\* Struct._build returns
Struct_exit ==
    /\ pc = "building"
    /\ UNCHANGED layerVars
    /\ Len(stack) > 0
    /\ stack[Len(stack)].kind = "Struct"
    /\ stack' = SubSeq(stack, 1, Len(stack) - 1)
    /\ Step
    /\ UNCHANGED <<streams, ledger, where>>

\* Prefixed._build begins: the subcon is built into a new BytesIO
Prefixed_enter(lf) ==
    /\ pc = "building"
    /\ UNCHANGED layerVars
    /\ Len(stack) < MaxDepth
    /\ Produced + Sizeof(lf) <= MaxBytes
    /\ stack' = Append(stack, PrefixedFrame(lf))
    /\ streams' = Append(streams, NewStream)
    /\ Step
    /\ UNCHANGED <<ledger, where>>

\* where a placeholder held in buffer `cur` is after the buffer was written
\* to its parent at position `at`
Spliced(w, cur, at) ==
    [i \in 1..Len(w) |->
        IF w[i].stream = cur
        THEN [w[i] EXCEPT !.stream = cur - 1, !.off = at + w[i].off]
        ELSE w[i]]

\* Prefixed._build ends: the length, then the buffered data, are written
\* to the enclosing stream
Prefixed_exit ==
    /\ pc = "building"
    /\ UNCHANGED layerVars
    /\ Len(stack) > 0
    /\ stack[Len(stack)].kind = "Prefixed"
    /\ LET data == streams[Cur].data
           outer == streams[Cur - 1]
           header == Encode(stack[Len(stack)].lengthfield, Len(data))
           withlen == stream_write(outer, header)
       IN /\ streams' = [SubSeq(streams, 1, Cur - 1) EXCEPT
                            ![Cur - 1] = stream_write(withlen, data)]
          /\ where' = Spliced(where, Cur, stream_tell(withlen))
    /\ stack' = SubSeq(stack, 1, Len(stack) - 1)
    /\ Step
    /\ UNCHANGED ledger

\* Computed(_change_placeholder), the field after a DeferredValue: another
\* writer overwrites the byte before the position of the context's stream,
\* a byte of the placeholder of context.a, and leaves the position as it was
ChangeByte(b) ==
    /\ pc = "building"
    /\ UNCHANGED layerVars
    /\ lastOp.op = "DeferredValue"
    /\ context_io(stack, Len(stack)) # 0
    /\ LET io == context_io(stack, Len(stack))
           s == streams[io]
       IN /\ s.pos >= 1
          /\ s.pos <= Len(s.data)
          /\ s.data[s.pos] # b
          /\ \E a \in 1..Len(ledger) :
                 /\ where[a].stream = io
                 /\ where[a].off < s.pos
                 /\ s.pos <= where[a].off + Len(ledger[a].placeholder_data)
          /\ streams' = [streams EXCEPT
                            ![io] = stream_write(stream_seek(s, s.pos - 1), <<b>>)]
    /\ Step
    /\ UNCHANGED <<stack, ledger, where>>

\* the top-level build returns
Finish ==
    /\ pc = "building"
    /\ UNCHANGED layerVars
    /\ stack = <<>>
    /\ pc' = "done"
    /\ lastOp' = Op("return", "ok", 0, None, FALSE, <<>>)
    /\ UNCHANGED <<stack, streams, ledger, where>>

\* ---------------------------------------------------------------- slots
\* seek_temporary: seeks to the offset on entering ...
seek_temporary_enter(s, offset) == stream_seek(s, offset)

\* seek_temporary without the seek back
seek_temporary_stay(s, fallback) == s

\* ... and back to the position it had (fallback) when the body returns
seek_temporary_exit(s, fallback) == stream_seek(s, fallback)

\* _check_placeholder that reads the bytes and does not compare them
check_placeholder_unchecked(meta, s) ==
    LET fallback == stream_tell(s)
        length == Len(meta.placeholder_data)
        s1 == seek_temporary_enter(s, meta.target_offset)
        s2 == AfterRead(s1, length)
    IN IF ~CanRead(s1, length)
       THEN [res |-> "StreamError", stream |-> s2]
       ELSE [res |-> "ok", stream |-> seek_temporary_exit(s2, fallback)]

\* DeferredMeta._check_placeholder on stream s: the outcome and the stream
\* it leaves; an exception in the body skips the seek back
DeferredMeta_check_placeholder(meta, s) ==
    LET fallback == stream_tell(s)
        length == Len(meta.placeholder_data)
        s1 == seek_temporary_enter(s, meta.target_offset)
        s2 == AfterRead(s1, length)
    IN IF ~CanRead(s1, length)
       THEN [res |-> "StreamError", stream |-> s2]
       ELSE IF ReadData(s1, length) # meta.placeholder_data
       THEN [res |-> "DeferredError_placeholder", stream |-> s2]
       ELSE [res |-> "ok", stream |-> seek_temporary_exit(s2, fallback)]

\* _build_value that builds at the position of the stream, not at the target
build_value_in_place(meta, obj, s) ==
    IF meta.new_value_written
    THEN [res |-> "AssertionError", stream |-> s, meta |-> meta]
    ELSE IF EncodeFails(meta.subcon, obj)
    THEN [res |-> "FormatFieldError", stream |-> s, meta |-> meta]
    ELSE [res |-> "ok",
          stream |-> stream_seek(stream_write(s, Encode(meta.subcon, obj)),
                                 stream_tell(s)),
          meta |-> [meta EXCEPT !.new_value = Some(obj),
                                !.new_value_written = TRUE]]

\* DeferredMeta._build_value of obj on stream s
DeferredMeta_build_value(meta, obj, s) ==
    LET fallback == stream_tell(s)
        s1 == seek_temporary_enter(s, meta.target_offset)
    IN IF meta.new_value_written
       THEN [res |-> "AssertionError", stream |-> s, meta |-> meta]
       ELSE IF EncodeFails(meta.subcon, obj)
       THEN [res |-> "FormatFieldError", stream |-> s1, meta |-> meta]
       ELSE [res |-> "ok",
             stream |-> seek_temporary_exit(
                            stream_write(s1, Encode(meta.subcon, obj)), fallback),
             meta |-> [meta EXCEPT !.new_value = Some(obj),
                                   !.new_value_written = TRUE]]

\* building the placeholder and leaving the stream where it was seeked back
BuildPlaceholder_seeked_back(dv, s) ==
    LET pre_offset == stream_tell(s)
        built == stream_write(s, Encode(dv.subcon, dv.placeholder))
        post_offset == stream_tell(built)
        back == stream_seek(built, pre_offset)
    IN [stream |-> back,
        placeholder_data |-> ReadData(back, post_offset - pre_offset)]

\* DeferredValue._build, lines 139-146: builds the placeholder on stream s
\* and reads it back; the stream it leaves and the bytes it read
BuildPlaceholder(dv, s) ==
    LET pre_offset == stream_tell(s)
        built == stream_write(s, Encode(dv.subcon, dv.placeholder))
        post_offset == stream_tell(built)
        back == stream_seek(built, pre_offset)
    IN [stream |-> AfterRead(back, post_offset - pre_offset),
        placeholder_data |-> ReadData(back, post_offset - pre_offset)]

\* a list that takes the new entry at its front
list_append_front(lst, meta) == <<meta>> \o lst

\* DeferredValue._build, line 150: _get_deferred_list(context).append(meta)
list_append(lst, meta) == Append(lst, meta)

\* a build that takes whatever value the caller gives
NotNone_ignored(obj) == FALSE

\* DeferredValue._build, line 133: obj is not None
NotNone(obj) == obj # None

\* DeferredValue._build(obj) of the DeferredValue dv; each DeferredValue
\* field of the schema has its own name, which is the path of the build
DeferredValue_build(dv, obj) ==
    /\ pc = "building"
    /\ UNCHANGED layerVars
    /\ dv \in DeferredValues
    /\ Len(ledger) < MaxSlots
    /\ Produced + Sizeof(dv.subcon) <= MaxBytes
    /\ IF NotNone(obj)
       THEN /\ Fail("DeferredValue", "DeferredError_expected_none",
                    0, None, FALSE, <<>>)
            /\ UNCHANGED <<streams, ledger, where>>
       ELSE IF EncodeFails(dv.subcon, dv.placeholder)
       THEN /\ Fail("DeferredValue", "FormatFieldError", 0, None, FALSE, <<>>)
            /\ UNCHANGED <<streams, ledger, where>>
       ELSE LET path == Names[Len(ledger) + 1]
                target_offset == GetOffsetInOuterStream(streams, stack, Cur)
                built == BuildPlaceholder(dv, streams[Cur])
                meta == DeferredMeta(dv.subcon, path, target_offset,
                                     built.placeholder_data)
            IN /\ streams' = [streams EXCEPT ![Cur] = built.stream]
               /\ ledger' = list_append(ledger, meta)
               /\ where' = Append(where,
                                  [stream |-> Cur, depth |-> Cur,
                                   off |-> stream_tell(streams[Cur])])
               /\ UNCHANGED stack
               /\ Done("DeferredValue", Len(ledger) + 1, None, FALSE)

\* the value expression evaluated before the target is looked at
InvalidTarget_late(t) ==
    /\ Fail("WriteDeferredValue", "DeferredError_not_meta", t, None, TRUE, <<>>)
    /\ UNCHANGED <<streams, ledger, where>>

\* WriteDeferredValue._build, lines 170-171: the path evaluated to
\* something that is no DeferredMeta
InvalidTarget(t) ==
    /\ Fail("WriteDeferredValue", "DeferredError_not_meta", t, None, FALSE, <<>>)
    /\ UNCHANGED <<streams, ledger, where>>

\* a WriteDeferredValue that writes the value and checks the placeholder
\* afterwards
Patch_write_first(t, v) ==
    LET outer_stream == get_root_stream(stack, 1)
    IN IF outer_stream = 0
       THEN /\ Fail("WriteDeferredValue", "AssertionError",
                    t, None, TRUE, <<>>)
            /\ UNCHANGED <<streams, ledger, where>>
       ELSE LET written == DeferredMeta_build_value(
                               ledger[t], v, streams[outer_stream])
                checked == DeferredMeta_check_placeholder(
                               ledger[t], written.stream)
            IN /\ streams' = [streams EXCEPT ![outer_stream] = checked.stream]
               /\ ledger' = [ledger EXCEPT ![t] = written.meta]
               /\ UNCHANGED where
               /\ IF written.res # "ok"
                  THEN Fail("WriteDeferredValue", written.res,
                            t, None, TRUE, <<>>)
                  ELSE IF checked.res # "ok"
                  THEN Fail("WriteDeferredValue", checked.res,
                            t, None, TRUE, <<>>)
                  ELSE Done("WriteDeferredValue", t, Some(v), TRUE)
                       /\ UNCHANGED stack

\* WriteDeferredValue._build, lines 172-179: the expression evaluates to v,
\* which is written to ledger entry t through the outermost stream
Patch(t, v) ==
    LET outer_stream == get_root_stream(stack, 1)
    IN IF outer_stream = 0
       THEN /\ Fail("WriteDeferredValue", "AssertionError",
                    t, None, TRUE, <<>>)
            /\ UNCHANGED <<streams, ledger, where>>
       ELSE LET checked == DeferredMeta_check_placeholder(
                               ledger[t], streams[outer_stream])
                written == DeferredMeta_build_value(
                               ledger[t], v, checked.stream)
            IN IF checked.res # "ok"
               THEN /\ Fail("WriteDeferredValue", checked.res,
                            t, None, TRUE, <<>>)
                    /\ streams' = [streams EXCEPT
                                      ![outer_stream] = checked.stream]
                    /\ UNCHANGED <<ledger, where>>
               ELSE /\ streams' = [streams EXCEPT
                                      ![outer_stream] = written.stream]
                    /\ ledger' = [ledger EXCEPT ![t] = written.meta]
                    /\ IF written.res = "ok"
                       THEN Done("WriteDeferredValue", t, Some(v), TRUE)
                            /\ UNCHANGED stack
                       ELSE Fail("WriteDeferredValue", written.res,
                                 t, None, TRUE, <<>>)
                    /\ UNCHANGED where

\* WriteDeferredValue._build: the path evaluates to ledger entry t, or to
\* something that is no DeferredMeta (t = 0)
WriteDeferredValue_build(t, v) ==
    /\ pc = "building"
    /\ UNCHANGED layerVars
    /\ IF t = 0 THEN InvalidTarget(t) ELSE Patch(t, v)

\* a check that looks at the first ledger entry only
NeverWritten_first(lst) ==
    IF lst = <<>> \/ lst[1].new_value_written THEN <<>> ELSE <<lst[1].path>>

\* the paths named by the error CheckDeferredValues raises: the loop raises
\* at the first entry that was not written
NeverWritten(lst) ==
    LET unwritten == {i \in 1..Len(lst) : ~lst[i].new_value_written}
    IN IF unwritten = {} THEN <<>> ELSE <<lst[Min(unwritten)].path>>

\* CheckDeferredValues._build
CheckDeferredValues_build ==
    /\ pc = "building"
    /\ UNCHANGED layerVars
    /\ IF NeverWritten(ledger) = <<>>
       THEN Done("CheckDeferredValues", 0, None, FALSE) /\ UNCHANGED stack
       ELSE Fail("CheckDeferredValues", "DeferredError_never_written",
                 Min(Unresolved), None, FALSE, NeverWritten(ledger))
    /\ UNCHANGED <<streams, ledger, where>>

\* ---------------------------------------------------------------- system
Next ==
    \/ \E subcon \in Subcons, placeholder \in Placeholders :
           DeferredValue_init(subcon, placeholder)
    \/ \E b \in ByteVals : Byte_build(b)
    \/ Struct_enter
    \/ Struct_exit
    \/ \E lf \in LengthFields : Prefixed_enter(lf)
    \/ Prefixed_exit
    \/ \E b \in ByteVals : ChangeByte(b)
    \/ \E subcon \in Subcons, placeholder \in Placeholders,
          obj \in {None, Some(0)} :
           DeferredValue_build(
               [subcon |-> subcon, placeholder |-> placeholder], obj)
    \/ \E t \in 0..MaxSlots, v \in Values :
           t <= Len(ledger) /\ WriteDeferredValue_build(t, v)
    \/ CheckDeferredValues_build
    \/ Finish

Spec == Init /\ [][Next]_vars

\* ---------------------------------------------------------------- values
\* what parsing and building produce.  kind: "int", "bytes" (bytes and its
\* subclasses), "Container" (a Struct's result), "ListContainer" (an
\* Array's result), "list" (a slice of a ListContainer); items: the byte
\* of an int, the bytes of a bytes value, the fields of a Container, the
\* elements of a list, each with its value as bytes; attrs: the object's
\* own attributes, which are no fields: a sequence of [key, data]
Item(name, val, attrs) == [name |-> name, val |-> val, attrs |-> attrs]

Value(kind, items, attrs) == [kind |-> kind, items |-> items, attrs |-> attrs]

Attr(key, data) == [key |-> key, data |-> data]

BytesValue(bs) == Value("bytes", <<Item("", bs, <<>>)>>, <<>>)

BytesOf(value) == value.items[1].val

IntValue(n) == Value("int", <<Item("", <<n>>, <<>>)>>, <<>>)

\* a hasattr that does not see the fields of a Container
HasAttr_attrs_only(value, key) ==
    \E i \in 1..Len(value.attrs) : value.attrs[i].key = key

\* hasattr(value, key): an attribute of the object, or a field of a
\* Container, which resolves attribute access through its keys
HasAttr(value, key) ==
    \/ \E i \in 1..Len(value.attrs) : value.attrs[i].key = key
    \/ /\ value.kind = "Container"
       /\ \E i \in 1..Len(value.items) : value.items[i].name = key

\* getattr(value, key) of an attribute that object.__setattr__ has set
GetAttr(attrs, key) ==
    attrs[CHOOSE i \in 1..Len(attrs) : attrs[i].key = key].data

\* object.__setattr__(value, key, data)
SetAttr(value, key, data) ==
    [value EXCEPT !.attrs = Append(@, Attr(key, data))]

\* setattr(value, key, data) of a Container: Container.__setattr__ stores
\* the attribute as a field
SetField(value, key, data) ==
    [value EXCEPT !.items = Append(@, Item(key, data, <<>>))]

\* ---------------------------------------------------------------- decoding
ParseBytes == {0, 1}            \* the bytes of a parsed stream
FieldNames == <<"x", "y", "z">> \* the fields of a nested Struct
RAW_KEY == "__raw__"
CHECKSUM_RAW_DATA_NAME == "__checksum_raw_data__"

\* subcon._parse of the bytes read: the inverse of Encode (big-endian)
Decode(subcon, bs) ==
    CASE subcon = "Byte" -> bs[1]
      [] subcon = "Int16ub" -> bs[1] * 256 + bs[2]
      [] OTHER -> 0 - 1

\* the subcons of the data fields: Struct (n Byte fields), Array(n, Byte),
\* Bytes(n), and Regions: Array(n, ChecksumSourceData(Struct('a' / Byte)))
Codec(shape, n) == [shape |-> shape, n |-> n]

Codecs == {Codec("Struct", 1), Codec("Array", 2), Codec("Bytes", 1),
           Codec("Regions", 2)}

\* the value the subcon makes of the bytes bs it consumed
CodecValue(codec, bs) ==
    CASE codec.shape = "Struct" ->
            Value("Container",
                  [i \in 1..Len(bs) |-> Item(FieldNames[i], <<bs[i]>>, <<>>)], <<>>)
      [] codec.shape = "Array" ->
            Value("ListContainer",
                  [i \in 1..Len(bs) |-> Item("", <<bs[i]>>, <<>>)], <<>>)
      [] codec.shape = "Regions" ->
            Value("ListContainer",
                  [i \in 1..Len(bs) |->
                      Item("a", <<bs[i]>>,
                           <<Attr(CHECKSUM_RAW_DATA_NAME, <<bs[i]>>)>>)], <<>>)
      [] OTHER -> BytesValue(bs)

\* subcon._parsereport(stream): the outcome, the stream it leaves and the
\* value
subcon_parse(codec, s) ==
    IF ~CanRead(s, codec.n)
    THEN [res |-> "StreamError", stream |-> AfterRead(s, codec.n),
          value |-> BytesValue(<<>>)]
    ELSE [res |-> "ok", stream |-> AfterRead(s, codec.n),
          value |-> CodecValue(codec, ReadData(s, codec.n))]

\* the parsed stream is modelled as far as it was read: `input` is what the
\* stream holds from its position on, up to the n bytes a read asks for;
\* fewer than n bytes are the end of the stream
InputsUpTo(n) == UNION {[1..k -> ParseBytes] : k \in 0..n}

Reveal(s, input) == [s EXCEPT !.data = @ \o input]

CanReveal(s, input) ==
    /\ stream_tell(s) = Len(s.data)
    /\ Len(s.data) + Len(input) <= MaxBytes

\* a parse step that returned
Parsed(op, slot, val) ==
    /\ pc' = "parsing"
    /\ lastOp' = Op(op, "ok", slot, val, FALSE, <<>>)

\* the name of the field being parsed or built: the data field is 'data',
\* the others are named by their place
NextName == Names[Len(context) + 1]

Field(name, value) == [name |-> name, value |-> value]

HasField(ctx, name) == \E i \in 1..Len(ctx) : ctx[i].name = name

GetField(ctx, name) ==
    ctx[CHOOSE i \in 1..Len(ctx) : ctx[i].name = name].value

\* a Struct of at most MaxSlots fields and a data field
RoomForField ==
    Len(context) < MaxSlots + (IF HasField(context, "data") THEN 1 ELSE 0)

RoomForData == ~HasField(context, "data")

\* DeferredValue does not override _parse: Subconstruct._parse parses the
\* subcon
DeferredValue_parse(dv, input) ==
    /\ pc = "parsing"
    /\ dv \in DeferredValues
    /\ RoomForField
    /\ CanReveal(streams[1], input)
    /\ LET s == Reveal(streams[1], input)
           length == Sizeof(dv.subcon)
       IN /\ streams' = <<AfterRead(s, length)>>
          /\ IF ~CanRead(s, length)
             THEN /\ Fail("DeferredValue", "StreamError", 0, None, FALSE, <<>>)
                  /\ UNCHANGED context
             ELSE /\ context' = Append(context,
                         Field(NextName,
                               IntValue(Decode(dv.subcon, ReadData(s, length)))))
                  /\ Parsed("DeferredValue", Len(context) + 1,
                            Some(Decode(dv.subcon, ReadData(s, length))))
                  /\ UNCHANGED stack
    /\ UNCHANGED <<ledger, where, instances, params, other, construct>>

\* the data field: subcon._parse
Data_parse(codec, input) ==
    /\ pc = "parsing"
    /\ RoomForData
    /\ CanReveal(streams[1], input)
    /\ LET parsed == subcon_parse(codec, Reveal(streams[1], input))
       IN /\ streams' = <<parsed.stream>>
          /\ IF parsed.res # "ok"
             THEN /\ Fail("Data", parsed.res, 0, None, FALSE, <<>>)
                  /\ UNCHANGED context
             ELSE /\ context' = Append(context, Field("data", parsed.value))
                  /\ Parsed("Data", Len(context) + 1, None)
                  /\ UNCHANGED stack
    /\ UNCHANGED <<ledger, where, instances, params, other, construct>>

\* a _parse that goes back to the target as _build does
WriteDeferredValue_parse_seeks ==
    /\ pc = "parsing"
    /\ Parsed("WriteDeferredValue", 0, None)
    /\ streams' = <<stream_seek(streams[1], 0)>>
    /\ UNCHANGED <<stack, ledger, where, context, instances, params, other, construct>>

\* WriteDeferredValue._parse: pass
WriteDeferredValue_parse ==
    /\ pc = "parsing"
    /\ Parsed("WriteDeferredValue", 0, None)
    /\ UNCHANGED <<stack, streams, ledger, where, context, instances, params, other, construct>>

\* CheckDeferredValues._parse: pass
CheckDeferredValues_parse ==
    /\ pc = "parsing"
    /\ Parsed("CheckDeferredValues", 0, None)
    /\ UNCHANGED <<stack, streams, ledger, where, context, instances, params, other, construct>>

\* ---------------------------------------------------------------- capture
RawKeys == {RAW_KEY, CHECKSUM_RAW_DATA_NAME, "x"}

\* RawCopy._parse: parses the subcon, seeks back to where it began and
\* reads the bytes the subcon consumed
RawCopy_parse(codec, s) ==
    LET offset1 == stream_tell(s)
        parsed == subcon_parse(codec, s)
        offset2 == stream_tell(parsed.stream)
        back == stream_seek(parsed.stream, offset1)
    IN IF parsed.res # "ok"
       THEN [res |-> parsed.res, stream |-> parsed.stream,
             value |-> parsed.value, data |-> <<>>]
       ELSE [res |-> "ok", stream |-> AfterRead(back, offset2 - offset1),
             value |-> parsed.value,
             data |-> ReadData(back, offset2 - offset1)]

\* __process_rawcopy that sets the key the way setattr does
process_rawcopy_setattr(rc, key) ==
    IF HasAttr(rc.value, key)
    THEN [res |-> "RawCopyError", value |-> rc.value]
    ELSE IF rc.value.kind \notin {"Container", "ListContainer"}
    THEN [res |-> "AttributeError", value |-> rc.value]
    ELSE [res |-> "ok", value |-> SetField(rc.value, key, rc.data)]

\* AttributeRawCopy.__process_rawcopy: the value with the raw bytes set as
\* the attribute `key`; object.__setattr__ fails on bytes
process_rawcopy(rc, key) ==
    IF HasAttr(rc.value, key)
    THEN [res |-> "RawCopyError", value |-> rc.value]
    ELSE IF rc.value.kind \notin {"Container", "ListContainer"}
    THEN [res |-> "AttributeError", value |-> rc.value]
    ELSE [res |-> "ok", value |-> SetAttr(rc.value, key, rc.data)]

\* AttributeRawCopy(subcon, key)._parse as a field of the Struct;
\* ChecksumSourceData(subcon) is AttributeRawCopy(subcon,
\* CHECKSUM_RAW_DATA_NAME)
AttributeRawCopy_parse(codec, key, input) ==
    /\ pc = "parsing"
    /\ RoomForData
    /\ CanReveal(streams[1], input)
    /\ LET rc == RawCopy_parse(codec, Reveal(streams[1], input))
           processed == process_rawcopy(rc, key)
           called == Some([codec |-> codec, key |-> key])
       IN /\ streams' = <<rc.stream>>
          /\ IF rc.res # "ok"
             THEN /\ Fail("AttributeRawCopy", rc.res, 0, called, FALSE, <<>>)
                  /\ UNCHANGED context
             ELSE IF processed.res # "ok"
             THEN /\ Fail("AttributeRawCopy", processed.res, 0, called,
                          FALSE, <<>>)
                  /\ UNCHANGED context
             ELSE /\ context' = Append(context,
                                       Field("data", processed.value))
                  /\ pc' = "parsing"
                  /\ lastOp' = Op("AttributeRawCopy", "ok", Len(context) + 1,
                                  called, FALSE, <<>>)
                  /\ UNCHANGED stack
    /\ UNCHANGED <<ledger, where, instances, params, other, construct>>

\* ---------------------------------------------------------------- checksums
\* the data expressions: this.data and this.data[0:k]
This(name) == [kind |-> "this", name |-> name, k |-> 0]

Slice(name, k) == [kind |-> "slice", name |-> name, k |-> k]

DataExprs == {This("data")} \cup {Slice("data", k) : k \in 1..2}

Min2(a, b) == IF a < b THEN a ELSE b

\* evaluate(data_expr, data_expr_context): the outcome and the value
evaluate(expr, ctx) ==
    IF ~HasField(ctx, expr.name)
    THEN [res |-> "KeyError", value |-> BytesValue(<<>>)]
    ELSE LET v == GetField(ctx, expr.name)
         IN IF expr.kind = "this" THEN [res |-> "ok", value |-> v]
            ELSE IF v.kind = "bytes"
            THEN [res |-> "ok",
                  value |-> BytesValue(SubSeq(BytesOf(v), 1,
                                              Min2(expr.k, Len(BytesOf(v)))))]
            ELSE IF v.kind \in {"ListContainer", "list"}
            THEN [res |-> "ok",
                  value |-> Value("list",
                                  SubSeq(v.items, 1,
                                         Min2(expr.k, Len(v.items))), <<>>)]
            ELSE [res |-> "TypeError", value |-> BytesValue(<<>>)]

\* the checksum metas.  value: the digest read from the stream (parsing);
\* slot: the ledger entry of the digest placeholder (building); hashed,
\* verified: what VerifyOrWriteChecksums did with the meta
ChecksumValueMeta(path, value, slot, data_expr, data_expr_is_list) ==
    [path |-> path, value |-> value, slot |-> slot, data_expr |-> data_expr,
     data_expr_is_list |-> data_expr_is_list,
     hashed |-> None, verified |-> FALSE]

\* ChecksumValue(hash_func, data_expr, data_expr_is_list)._parse: reads the
\* stored digest and registers the meta
ChecksumValue_parse(data_expr, data_expr_is_list, input) ==
    /\ pc = "parsing"
    /\ RoomForField
    /\ CanReveal(streams[1], input)
    /\ LET s == Reveal(streams[1], input)
       IN /\ streams' = <<AfterRead(s, digest_size)>>
          /\ IF ~CanRead(s, digest_size)
             THEN /\ Fail("ChecksumValue", "StreamError", 0, None, FALSE, <<>>)
                  /\ UNCHANGED <<context, instances>>
             ELSE /\ context' = Append(context,
                         Field(NextName, BytesValue(ReadData(s, digest_size))))
                  /\ instances' = Append(instances,
                         ChecksumValueMeta(NextName, ReadData(s, digest_size),
                                           0, data_expr, data_expr_is_list))
                  /\ Parsed("ChecksumValue", Len(instances) + 1, None)
                  /\ UNCHANGED stack
    /\ UNCHANGED <<ledger, where, params, other, construct>>

\* a test that takes byte strings only as raw data
HasRawData_bytes_only(value) == value.kind = "bytes"

\* the value the expression gave is a byte string or has the raw data set
HasRawData(value) ==
    value.kind = "bytes" \/ HasAttr(value, CHECKSUM_RAW_DATA_NAME)

\* a __get_raw_data that finds no bytes
get_raw_data_empty(value) == <<>>

\* VerifyOrWriteChecksums.__get_raw_data(value)
get_raw_data(value) ==
    IF value.kind = "bytes" THEN BytesOf(value)
    ELSE IF \E i \in 1..Len(value.attrs) :
                value.attrs[i].key = CHECKSUM_RAW_DATA_NAME
    THEN GetAttr(value.attrs, CHECKSUM_RAW_DATA_NAME)
    ELSE LET i == CHOOSE i \in 1..Len(value.items) :
                      value.items[i].name = CHECKSUM_RAW_DATA_NAME
         IN value.items[i].val

\* an element of a list as a value: a Container with one field, or an int
ElementValue(item) ==
    IF item.name = "" THEN Value("int", <<Item("", item.val, <<>>)>>, <<>>)
    ELSE Value("Container", <<Item(item.name, item.val, <<>>)>>, item.attrs)

\* b''.join over the regions of the list, in the order of the list
RECURSIVE JoinRawData(_, _)
\* a join that keeps the last region only
JoinRawData_last(items, k) ==
    IF k = 0 THEN <<>> ELSE get_raw_data(ElementValue(items[k]))

JoinRawData(items, k) ==
    IF k = 0 THEN <<>>
    ELSE JoinRawData(items, k - 1) \o get_raw_data(ElementValue(items[k]))

ChecksumCalcErrors == {"ChecksumCalcError_shape", "ChecksumCalcError_raw"}

\* __iter_values that takes whatever the expression gives as the regions
iter_value_any_shape(meta, ctx) ==
    LET evaluated == evaluate(meta.data_expr, ctx)
        v == evaluated.value
    IN IF evaluated.res # "ok" THEN [res |-> evaluated.res, digest |-> <<>>]
       ELSE IF meta.data_expr_is_list /\ v.kind \in {"list", "ListContainer"}
       THEN IF \E k \in 1..Len(v.items) : ~HasRawData(ElementValue(v.items[k]))
            THEN [res |-> "ChecksumCalcError_raw", digest |-> <<>>]
            ELSE [res |-> "ok",
                  digest |-> hash_func(JoinRawData(v.items, Len(v.items)))]
       ELSE IF ~HasRawData(v)
       THEN [res |-> "ChecksumCalcError_raw", digest |-> <<>>]
       ELSE [res |-> "ok", digest |-> hash_func(get_raw_data(v))]

\* VerifyOrWriteChecksums.__iter_values for one meta: evaluates the data
\* expression in the context of the checksum field, checks that a list was
\* given where one is expected, joins the raw data and hashes it
iter_value(meta, ctx) ==
    LET evaluated == evaluate(meta.data_expr, ctx)
        v == evaluated.value
    IN IF evaluated.res # "ok" THEN [res |-> evaluated.res, digest |-> <<>>]
       ELSE IF meta.data_expr_is_list
       THEN IF v.kind # "list"
            THEN [res |-> "ChecksumCalcError_shape", digest |-> <<>>]
            ELSE IF \E k \in 1..Len(v.items) :
                        ~HasRawData(ElementValue(v.items[k]))
            THEN [res |-> "ChecksumCalcError_raw", digest |-> <<>>]
            ELSE [res |-> "ok",
                  digest |-> hash_func(JoinRawData(v.items, Len(v.items)))]
       ELSE IF ~HasRawData(v)
       THEN [res |-> "ChecksumCalcError_raw", digest |-> <<>>]
       ELSE [res |-> "ok", digest |-> hash_func(get_raw_data(v))]

\* a comparison that takes every digest as the stored one
DigestsDiffer_never(value, hash_value) == FALSE

\* VerifyOrWriteChecksums._parse, line 167: meta.value != hash_value
DigestsDiffer(value, hash_value) == value # hash_value

\* VerifyOrWriteChecksums._parse from meta i on: the outcome, the metas as
\* the loop leaves them, the digests and the path the error carries
RECURSIVE VerifyFrom(_, _, _)
VerifyFrom(insts, i, ctx) ==
    IF i > Len(insts)
    THEN [res |-> "ok", instances |-> insts, val |-> None, paths |-> <<>>]
    ELSE LET it == iter_value(insts[i], ctx)
             hashed == [insts EXCEPT ![i].hashed = Some(it.digest)]
         IN IF it.res # "ok"
            THEN [res |-> it.res, instances |-> insts, val |-> None,
                  paths |-> <<insts[i].path>>]
            ELSE IF DigestsDiffer(insts[i].value, it.digest)
            THEN [res |-> "ChecksumVerifyError", instances |-> hashed,
                  val |-> <<insts[i].value, it.digest>>,
                  paths |-> <<insts[i].path>>]
            ELSE VerifyFrom([hashed EXCEPT ![i].verified = TRUE], i + 1, ctx)

\* VerifyOrWriteChecksums._parse; the parameters of the parse call are not
\* looked at
VerifyOrWriteChecksums_parse ==
    /\ pc = "parsing"
    /\ LET verified == VerifyFrom(instances, 1, context)
       IN /\ instances' = verified.instances
          /\ IF verified.res = "ok"
             THEN Parsed("VerifyOrWriteChecksums", 0, None) /\ UNCHANGED stack
             ELSE Fail("VerifyOrWriteChecksums", verified.res, 0,
                       verified.val, FALSE, verified.paths)
    /\ UNCHANGED <<streams, ledger, where, context, params, other, construct>>

\* the top-level parse returns the Container
Finish_parse ==
    /\ pc = "parsing"
    /\ pc' = "done"
    /\ lastOp' = Op("return", "ok", 0, None, FALSE, <<>>)
    /\ UNCHANGED <<stack, streams, ledger, where, context, instances, params, other, construct>>

\* ---------------------------------------------------------------- decoding
\* one parse of a Struct of plain, deferred and captured fields
InitParse ==
    /\ stack = <<>>
    /\ streams = <<NewStream>>
    /\ ledger = <<>>
    /\ where = <<>>
    /\ pc = "parsing"
    /\ lastOp = Op("init", "ok", 0, None, FALSE, <<>>)
    /\ context = <<>>
    /\ instances = <<>>
    /\ params \in [skip_verify_checksums : BOOLEAN]
    /\ other = Invocation(2, <<>>, <<NewStream>>, RootContext(<<>>), <<>>,
                          "parsing", Op("init", "ok", 0, None, FALSE, <<>>))
    /\ construct = [Struct_parse |-> <<orig_attr>> \o Struct_parse_orig]

NextParse ==
    \/ \E subcon \in Subcons, placeholder \in Placeholders,
          input \in InputsUpTo(2) :
           DeferredValue_parse(
               [subcon |-> subcon, placeholder |-> placeholder], input)
    \/ \E codec \in Codecs, input \in InputsUpTo(2) : Data_parse(codec, input)
    \/ \E codec \in Codecs, key \in RawKeys, input \in InputsUpTo(2) :
           AttributeRawCopy_parse(codec, key, input)
    \/ WriteDeferredValue_parse
    \/ CheckDeferredValues_parse
    \/ Finish_parse

SpecParse == InitParse /\ [][NextParse]_vars

\* one parse of a Struct of checksum fields, a data field and
\* VerifyOrWriteChecksums
NextVerify ==
    \/ \E data_expr \in DataExprs, data_expr_is_list \in BOOLEAN,
          input \in InputsUpTo(digest_size) :
           ChecksumValue_parse(data_expr, data_expr_is_list, input)
    \/ \E codec \in Codecs, input \in InputsUpTo(2) : Data_parse(codec, input)
    \/ \E codec \in Codecs, input \in InputsUpTo(2) :
           AttributeRawCopy_parse(codec, CHECKSUM_RAW_DATA_NAME, input)
    \/ VerifyOrWriteChecksums_parse
    \/ Finish_parse

SpecVerify == InitParse /\ [][NextVerify]_vars

\* ---------------------------------------------------------------- encoding
\* a field the build has produced, with the offsets RawCopy took before
\* and after the subcon
Region(name, value, offset1, offset2) ==
    [name |-> name, value |-> value, offset1 |-> offset1, offset2 |-> offset2]

\* Slot: Struct('s' / DeferredValue(Byte, 0)) as the subcon of a data field
SlotValue == [subcon |-> "Byte", placeholder |-> 0]

BuildCodecs == Codecs \cup {Codec("Slot", 1)}

\* the objects a data field is built from, as the bytes they encode to
BuildObjs(codec) ==
    IF codec.shape = "Slot" THEN {<<>>} ELSE [1..codec.n -> ParseBytes]

\* subcon._build(obj, stream): the stream it leaves and the value returned
subcon_build(codec, obj, s) ==
    IF codec.shape = "Slot"
    THEN LET built == BuildPlaceholder(SlotValue, s)
         IN [stream |-> built.stream,
             value |-> Value("Container",
                             <<Item("s", built.placeholder_data, <<>>)>>, <<>>)]
    ELSE [stream |-> stream_write(s, obj), value |-> CodecValue(codec, obj)]

\* a RawCopy._build that reads on from the end of what the subcon wrote
RawCopy_build_no_seek(codec, obj, s) ==
    LET offset1 == stream_tell(s)
        built == subcon_build(codec, obj, s)
        offset2 == stream_tell(built.stream)
    IN [res |-> "ok", stream |-> built.stream,
        value |-> built.value,
        data |-> SubSeq(built.stream.data, offset2 + 1,
                        Len(built.stream.data)),
        offset1 |-> offset1, offset2 |-> offset2]

\* RawCopy._build of {'value': obj}: builds the subcon, seeks back to where
\* it began and reads the bytes the subcon wrote
RawCopy_build(codec, obj, s) ==
    LET offset1 == stream_tell(s)
        built == subcon_build(codec, obj, s)
        offset2 == stream_tell(built.stream)
        back == stream_seek(built.stream, offset1)
    IN [res |-> "ok", stream |-> AfterRead(back, offset2 - offset1),
        value |-> built.value, data |-> ReadData(back, offset2 - offset1),
        offset1 |-> offset1, offset2 |-> offset2]

\* the DeferredValue of a Slot registers its meta, as DeferredValue._build
\* does, in the context of the Struct around it
RegisterSlot(codec) ==
    IF codec.shape = "Slot"
    THEN /\ ledger' = Append(ledger,
                DeferredMeta(SlotValue.subcon, "data",
                    GetOffsetInOuterStream(
                        streams, Append(stack, StructFrame(Cur)), Cur),
                    BuildPlaceholder(SlotValue, streams[Cur]).placeholder_data))
         /\ where' = Append(where,
                            [stream |-> Cur, depth |-> Cur,
                             off |-> stream_tell(streams[Cur])])
    ELSE UNCHANGED <<ledger, where>>

RoomForBuild(codec) ==
    /\ RoomForData
    /\ Produced + codec.n <= MaxBytes
    /\ codec.shape = "Slot" => Len(ledger) < MaxSlots

\* the data field: subcon._build
Data_build(codec, obj) ==
    /\ pc = "building"
    /\ RoomForBuild(codec)
    /\ LET built == subcon_build(codec, obj, streams[Cur])
       IN /\ streams' = [streams EXCEPT ![Cur] = built.stream]
          /\ context' = Append(context,
                 Region("data", built.value, stream_tell(streams[Cur]),
                        stream_tell(built.stream)))
    /\ RegisterSlot(codec)
    /\ Done("Data", Len(context) + 1, None, FALSE)
    /\ UNCHANGED <<stack, instances, params, other, construct>>

\* AttributeRawCopy(subcon, key)._build as a field of the Struct
AttributeRawCopy_build(codec, key, obj) ==
    /\ pc = "building"
    /\ RoomForBuild(codec)
    /\ LET rc == RawCopy_build(codec, obj, streams[Cur])
           processed == process_rawcopy(rc, key)
           called == Some([codec |-> codec, key |-> key])
       IN /\ streams' = [streams EXCEPT ![Cur] = rc.stream]
          /\ IF processed.res # "ok"
             THEN /\ Fail("AttributeRawCopy", processed.res, 0, called,
                          FALSE, <<>>)
                  /\ UNCHANGED context
             ELSE /\ context' = Append(context,
                         Region("data", processed.value,
                                rc.offset1, rc.offset2))
                  /\ pc' = "building"
                  /\ lastOp' = Op("AttributeRawCopy", "ok", Len(context) + 1,
                                  called, FALSE, <<>>)
                  /\ UNCHANGED stack
    /\ RegisterSlot(codec)
    /\ UNCHANGED <<instances, params, other, construct>>

\* the DeferredValue a ChecksumValue is: the subcon is ChecksumRaw, the
\* placeholder is digest_size zero bytes
ChecksumSlot == [subcon |-> "ChecksumRaw", placeholder |-> Zeros(digest_size)]

\* ChecksumValue(hash_func, data_expr, data_expr_is_list)._build: writes
\* the placeholder of the digest and registers the slot and the meta
ChecksumValue_build(data_expr, data_expr_is_list) ==
    /\ pc = "building"
    /\ RoomForField
    /\ Len(ledger) < MaxSlots
    /\ Produced + digest_size <= MaxBytes
    /\ LET built == BuildPlaceholder(ChecksumSlot, streams[Cur])
           meta == DeferredMeta(ChecksumSlot.subcon, NextName,
                                GetOffsetInOuterStream(streams, stack, Cur),
                                built.placeholder_data)
       IN /\ streams' = [streams EXCEPT ![Cur] = built.stream]
          /\ ledger' = Append(ledger, meta)
          /\ where' = Append(where,
                             [stream |-> Cur, depth |-> Cur,
                              off |-> stream_tell(streams[Cur])])
          /\ context' = Append(context,
                 Region(NextName,
                        Value("DeferredMeta",
                              <<Item("", built.placeholder_data, <<>>)>>, <<>>),
                        stream_tell(streams[Cur]), stream_tell(built.stream)))
          /\ instances' = Append(instances,
                 ChecksumValueMeta(NextName, <<>>, Len(ledger) + 1,
                                   data_expr, data_expr_is_list))
    /\ Done("ChecksumValue", Len(ledger) + 1, None, FALSE)
    /\ UNCHANGED <<stack, params, other, construct>>

\* VerifyOrWriteChecksums._build from meta i on, writing through stream s:
\* WriteDeferredValue(hash_value, meta)._build for each meta in turn
RECURSIVE WriteFrom(_, _, _, _, _)
WriteFrom(insts, i, ctx, s, lg) ==
    IF i > Len(insts)
    THEN [res |-> "ok", instances |-> insts, stream |-> s, ledger |-> lg,
          paths |-> <<>>]
    ELSE LET it == iter_value(insts[i], ctx)
             hashed == [insts EXCEPT ![i].hashed = Some(it.digest)]
             t == insts[i].slot
             checked == DeferredMeta_check_placeholder(lg[t], s)
             written == DeferredMeta_build_value(lg[t], it.digest,
                                                 checked.stream)
         IN IF it.res # "ok"
            THEN [res |-> it.res, instances |-> insts, stream |-> s,
                  ledger |-> lg, paths |-> <<insts[i].path>>]
            ELSE IF checked.res # "ok"
            THEN [res |-> checked.res, instances |-> hashed,
                  stream |-> checked.stream, ledger |-> lg,
                  paths |-> <<insts[i].path>>]
            ELSE IF written.res # "ok"
            THEN [res |-> written.res, instances |-> hashed,
                  stream |-> written.stream, ledger |-> lg,
                  paths |-> <<insts[i].path>>]
            ELSE WriteFrom(hashed, i + 1, ctx, written.stream,
                           [lg EXCEPT ![t] = written.meta])

\* VerifyOrWriteChecksums._build
VerifyOrWriteChecksums_build ==
    /\ pc = "building"
    /\ LET outer_stream == get_root_stream(stack, 1)
       IN IF instances = <<>>
          THEN /\ Done("VerifyOrWriteChecksums", 0, None, FALSE)
               /\ UNCHANGED <<stack, streams, ledger, instances>>
          ELSE IF outer_stream = 0
          THEN /\ IF iter_value(instances[1], context).res # "ok"
                  THEN Fail("VerifyOrWriteChecksums",
                            iter_value(instances[1], context).res, 0, None,
                            FALSE, <<instances[1].path>>)
                  ELSE Fail("VerifyOrWriteChecksums", "AssertionError", 0,
                            None, FALSE, <<instances[1].path>>)
               /\ UNCHANGED <<streams, ledger, instances>>
          ELSE LET written == WriteFrom(instances, 1, context,
                                        streams[outer_stream], ledger)
               IN /\ streams' = [streams EXCEPT
                                    ![outer_stream] = written.stream]
                  /\ ledger' = written.ledger
                  /\ instances' = written.instances
                  /\ IF written.res = "ok"
                     THEN Done("VerifyOrWriteChecksums", 0, None, FALSE)
                          /\ UNCHANGED stack
                     ELSE Fail("VerifyOrWriteChecksums", written.res, 0,
                               None, FALSE, written.paths)
    /\ UNCHANGED <<where, context, params, other, construct>>

\* one build of a Struct of plain and checksum fields, a data field, which
\* may hold a deferred value, and VerifyOrWriteChecksums, with plain bytes
\* and patches of the deferred value before, in and after the Struct
NextChecksum ==
    \/ stack = <<>> /\ context = <<>> /\ Struct_enter
    \/ Struct_exit
    \/ \E b \in ByteVals : Byte_build(b)
    \/ \E data_expr \in DataExprs, data_expr_is_list \in BOOLEAN :
           stack # <<>> /\ ChecksumValue_build(data_expr, data_expr_is_list)
    \/ \E codec \in BuildCodecs : \E obj \in BuildObjs(codec) :
           stack # <<>> /\ Data_build(codec, obj)
    \/ \E codec \in BuildCodecs, key \in {RAW_KEY, CHECKSUM_RAW_DATA_NAME} :
           \E obj \in BuildObjs(codec) :
               stack # <<>> /\ AttributeRawCopy_build(codec, key, obj)
    \/ \E t \in 1..MaxSlots, v \in Values :
           /\ t <= Len(ledger)
           /\ ledger[t].subcon = "Byte"
           /\ WriteDeferredValue_build(t, v)
    \/ stack # <<>> /\ VerifyOrWriteChecksums_build
    \/ CheckDeferredValues_build
    \/ Finish

SpecChecksum == Init /\ [][NextChecksum]_vars

\* an evaluation in the context VerifyOrWriteChecksums is built in
data_expr_context_own(declared, own) == own

\* meta.data_expr_context: the context ChecksumValue._create_global_meta
\* was given, that of the Struct the checksum field is declared in, and
\* not the one VerifyOrWriteChecksums is built in (own)
data_expr_context(declared, own) == declared

\* VerifyOrWriteChecksums._build in an unnamed Struct nested in the Struct
\* of the checksum fields, whose only other field is
\* 'data' / Computed(data); the nested Struct writes no byte of its own
VerifyOrWriteChecksums_build_nested(data) ==
    /\ pc = "building"
    /\ instances # <<>>
    /\ Len(stack) < MaxDepth
    /\ LET own == <<Region("data", BytesValue(data),
                           stream_tell(streams[Cur]),
                           stream_tell(streams[Cur]))>>
           outer_stream == get_root_stream(
                               Append(stack, StructFrame(Cur)), 1)
           written == WriteFrom(instances, 1,
                                data_expr_context(context, own),
                                streams[outer_stream], ledger)
       IN /\ streams' = [streams EXCEPT ![outer_stream] = written.stream]
          /\ ledger' = written.ledger
          /\ instances' = written.instances
          /\ IF written.res = "ok"
             THEN Done("VerifyOrWriteChecksums", 0, Some(data), FALSE)
                  /\ UNCHANGED stack
             ELSE Fail("VerifyOrWriteChecksums", written.res, 0,
                       Some(data), FALSE, written.paths)
    /\ UNCHANGED <<where, context, params, other, construct>>

\* one build of a Struct of several checksum fields, a data field wrapped
\* in ChecksumSourceData, and VerifyOrWriteChecksums in the Struct or in a
\* Struct nested in it
NextSeveral ==
    \/ stack = <<>> /\ context = <<>> /\ Struct_enter
    \/ Struct_exit
    \/ \E data_expr \in DataExprs, data_expr_is_list \in BOOLEAN :
           stack # <<>> /\ ChecksumValue_build(data_expr, data_expr_is_list)
    \/ \E codec \in Codecs : \E obj \in BuildObjs(codec) :
           stack # <<>>
               /\ AttributeRawCopy_build(codec, CHECKSUM_RAW_DATA_NAME, obj)
    \/ stack # <<>> /\ VerifyOrWriteChecksums_build
    \/ \E data \in [1..1 -> ParseBytes] :
           stack # <<>> /\ VerifyOrWriteChecksums_build_nested(data)
    \/ Finish

SpecSeveral == Init /\ [][NextSeveral]_vars

\* a parse or a build of a Struct with checksum fields
InitEither == Init \/ InitParse

NextEither == NextVerify \/ NextChecksum

SpecEither == InitEither /\ [][NextEither]_vars

\* ---------------------------------------------------------------- inlining
\* the name InliningStruct gives its first inlined subcon
InlineName == "__inline_0_0"

\* the subcons of an InlineStruct: Struct-like, of one or two Byte fields
InlineCodecs == {Codec("Struct", 1), Codec("Struct", 2)}

\* context[name] = value: replaces the entry of that name or adds one
ContextSet(ctx, name, value) ==
    IF HasField(ctx, name)
    THEN [i \in 1..Len(ctx) |->
             IF ctx[i].name = name THEN Field(name, value) ELSE ctx[i]]
    ELSE Append(ctx, Field(name, value))

\* context.update(obj) of _InlineMixin: every field of the inlined value
\* becomes an entry of the outer context
RECURSIVE ContextUpdate(_, _, _)
ContextUpdate(ctx, items, k) ==
    IF k = 0 THEN ctx
    ELSE ContextSet(ContextUpdate(ctx, items, k - 1), items[k].name,
                    IntValue(items[k].val[1]))

\* a __process_rawcopy that leaves the context alone
process_rawcopy_context_skip(ctx, rc, key, is_inline) == ctx

\* AttributeRawCopy.__process_rawcopy, the special case of an inlined
\* subcon: setattr(context, key, rc_bytes)
process_rawcopy_context(ctx, rc, key, is_inline) ==
    IF is_inline THEN ContextSet(ctx, key, BytesValue(rc.data)) ELSE ctx

\* key @ AttributeRawCopy(InlineStruct(...))._parse as a subcon of an
\* InliningStruct
AttributeRawCopy_inline_parse(codec, key, input) ==
    /\ pc = "parsing"
    /\ ~HasField(context, InlineName)
    /\ CanReveal(streams[1], input)
    /\ LET rc == RawCopy_parse(codec, Reveal(streams[1], input))
           updated == ContextUpdate(context, rc.value.items,
                                    Len(rc.value.items))
           processed == process_rawcopy(rc, key)
           called == Some([codec |-> codec, key |-> key])
       IN /\ streams' = <<rc.stream>>
          /\ IF rc.res # "ok"
             THEN /\ Fail("AttributeRawCopy_inline", rc.res, 0, called,
                          FALSE, <<>>)
                  /\ UNCHANGED context
             ELSE IF processed.res # "ok"
             THEN /\ Fail("AttributeRawCopy_inline", processed.res, 0, called,
                          FALSE, <<>>)
                  /\ context' = updated
             ELSE /\ context' = ContextSet(
                         process_rawcopy_context(updated, rc, key, TRUE),
                         InlineName, processed.value)
                  /\ pc' = "parsing"
                  /\ lastOp' = Op("AttributeRawCopy_inline", "ok", 0, called,
                                  FALSE, <<>>)
                  /\ UNCHANGED stack
    /\ UNCHANGED <<ledger, where, instances, params, other, construct>>

\* key @ AttributeRawCopy(InlineStruct(...))._build as a subcon of an
\* InliningStruct
AttributeRawCopy_inline_build(codec, key, obj) ==
    /\ pc = "building"
    /\ ~HasField(context, InlineName)
    /\ Produced + codec.n <= MaxBytes
    /\ LET rc == RawCopy_build(codec, obj, streams[Cur])
           updated == ContextUpdate(context, rc.value.items,
                                    Len(rc.value.items))
           processed == process_rawcopy(rc, key)
           called == Some([codec |-> codec, key |-> key])
       IN /\ streams' = [streams EXCEPT ![Cur] = rc.stream]
          /\ IF processed.res # "ok"
             THEN /\ Fail("AttributeRawCopy_inline", processed.res, 0, called,
                          FALSE, <<>>)
                  /\ context' = updated
             ELSE /\ context' = ContextSet(
                         process_rawcopy_context(updated, rc, key, TRUE),
                         InlineName, processed.value)
                  /\ pc' = "building"
                  /\ lastOp' = Op("AttributeRawCopy_inline", "ok", 0, called,
                                  FALSE, <<>>)
                  /\ UNCHANGED stack
    /\ UNCHANGED <<ledger, where, instances, params, other, construct>>

\* 'b' / Computed(this.key), parsing or building: the value of the
\* expression in the context of the Struct
Computed(key) ==
    /\ pc \in {"parsing", "building"}
    /\ LET evaluated == evaluate(This(key), context)
       IN IF evaluated.res # "ok"
          THEN /\ Fail("Computed", evaluated.res, 0, Some(key), TRUE, <<>>)
               /\ UNCHANGED context
          ELSE /\ context' = ContextSet(context, "b", evaluated.value)
               /\ pc' = pc
               /\ lastOp' = Op("Computed", "ok", 0, Some(key), TRUE, <<>>)
               /\ UNCHANGED stack
    /\ UNCHANGED <<streams, ledger, where, instances, params, other, construct>>

\* a parse or a build of an InliningStruct of plain fields, one captured
\* InlineStruct and a Computed field
NextInline ==
    \/ \E subcon \in Subcons, placeholder \in Placeholders,
          input \in InputsUpTo(2) :
           DeferredValue_parse(
               [subcon |-> subcon, placeholder |-> placeholder], input)
    \/ \E codec \in InlineCodecs, key \in RawKeys, input \in InputsUpTo(2) :
           AttributeRawCopy_inline_parse(codec, key, input)
    \/ Finish_parse
    \/ stack = <<>> /\ context = <<>> /\ Struct_enter
    \/ Struct_exit
    \/ \E b \in ByteVals : Byte_build(b)
    \/ \E codec \in InlineCodecs, key \in RawKeys :
           \E obj \in BuildObjs(codec) :
               stack # <<>> /\ AttributeRawCopy_inline_build(codec, key, obj)
    \/ \E key \in RawKeys : (pc = "building" => stack # <<>>) /\ Computed(key)
    \/ Finish

SpecInline == InitEither /\ [][NextInline]_vars

\* ---------------------------------------------------------------- invocations
\* a list kept in one place for every build call
get_deferred_list_shared(root) == ledger

\* _get_deferred_list(context): the list kept on the root context of the
\* call the context belongs to
get_deferred_list(root) == root.deferred_list

\* the running build call stops where it is and the other one goes on, or
\* begins: each has its own streams and its own root context
Switch ==
    /\ stack' = other.stack
    /\ streams' = other.streams
    /\ ledger' = get_deferred_list(other.root)
    /\ where' = other.where
    /\ pc' = other.pc
    /\ lastOp' = other.lastOp
    /\ other' = Invocation(3 - other.call, stack, streams,
                           RootContext(ledger), where, pc, lastOp)
    /\ UNCHANGED <<context, instances, params, construct>>

\* two build calls of Structs of DeferredValue(Byte, 0) fields,
\* WriteDeferredValue and CheckDeferredValues, one after the other or
\* interleaved
NextTwo ==
    \/ Struct_enter
    \/ Struct_exit
    \/ DeferredValue_build([subcon |-> "Byte", placeholder |-> 0], None)
    \/ \E t \in 1..MaxSlots :
           t <= Len(ledger) /\ WriteDeferredValue_build(t, 1)
    \/ CheckDeferredValues_build
    \/ Finish
    \/ Switch

SpecTwo == Init /\ [][NextTwo]_vars

\* ---------------------------------------------------------------- offsets
\* a computation that measures the stream by seeking to its start
get_offset_in_outer_stream_seeking(ss, st, cur) ==
    [offset |-> GetOffsetInOuterStream(ss, st, cur),
     streams |-> [ss EXCEPT ![cur] = stream_seek(@, 0)]]

\* get_offset_in_outer_stream(stream, context, path), called with stream
\* ss[cur]: the offset it returns and the streams it leaves.  It calls
\* stream_tell on the stream and on the _io of the contexts, and reads the
\* frames of inspect.stack(); the sum is that of
\* DeferredValue.__get_offset_in_outer_stream
get_offset_in_outer_stream(ss, st, cur) ==
    [offset |-> stream_tell(ss[cur]) + collect(ss, st, Len(st), cur)
                    + PrefixedOnStack(st),
     streams |-> ss]

\* a field of the schema that calls get_offset_in_outer_stream with the
\* stream and the context it is built with
get_offset_in_outer_stream_build ==
    /\ pc = "building"
    /\ UNCHANGED layerVars
    /\ LET got == get_offset_in_outer_stream(streams, stack, Cur)
       IN /\ streams' = got.streams
          /\ Done("get_offset_in_outer_stream", 0, Some(got.offset), FALSE)
    /\ UNCHANGED <<stack, ledger, where>>

\* builds of Structs and Prefixed of Byte and DeferredValue(Byte, 0)
\* fields, with fields that ask for the offset in the outer stream
NextOffset ==
    \/ \E b \in ByteVals : Byte_build(b)
    \/ Struct_enter
    \/ Struct_exit
    \/ \E lf \in LengthFields : Prefixed_enter(lf)
    \/ Prefixed_exit
    \/ DeferredValue_build([subcon |-> "Byte", placeholder |-> 0], None)
    \/ get_offset_in_outer_stream_build
    \/ Finish

SpecOffset == Init /\ [][NextOffset]_vars

\* ---------------------------------------------------------------- _io patch
\* the streams a Struct is parsed from: the BytesIO of parse(bytes), which
\* is an io.IOBase, and a file-like object that is none, as the
\* RestreamedBytesIO of construct
StreamKinds == {"BytesIO", "RestreamedBytesIO"}

\* isinstance(value, io.IOBase)
IsIOBase(value) == value.kind = "BytesIO"

\* a check that never finds the attribute
hasattr_orig_never(fn) == FALSE

\* hasattr(fn, __orig_attr)
hasattr_orig(fn) == fn # <<>> /\ Head(fn) = orig_attr

\* the Container the Struct._parse of construct returns for a Struct of
\* Byte fields: obj._io = stream, then the fields
Struct_parse_result(input, io) ==
    <<Field("_io", Value(io, <<>>, <<>>))>>
        \o [i \in 1..Len(input) |-> Field(Names[i], IntValue(input[i]))]

\* del obj['_io']
DelIo(obj) ==
    LET keep == {i \in 1..Len(obj) : obj[i].name # "_io"}
        RECURSIVE Kept(_)
        Kept(k) == IF k = 0 THEN <<>>
                   ELSE IF k \in keep THEN Append(Kept(k - 1), obj[k])
                   ELSE Kept(k - 1)
    IN Kept(Len(obj))

\* patch.patched, lines 22-26, on the obj that orig returned
patched(obj) ==
    IF HasField(obj, "_io") /\ IsIOBase(GetField(obj, "_io"))
    THEN DelIo(obj)
    ELSE obj

\* calling the function fn: the original, or a patched that calls the
\* function kept in its attribute
RECURSIVE CallParse(_, _, _)
CallParse(fn, input, io) ==
    IF hasattr_orig(fn) THEN patched(CallParse(Tail(fn), input, io))
    ELSE Struct_parse_result(input, io)

\* patch()
patch ==
    /\ LET orig == construct.Struct_parse
       IN IF hasattr_orig(orig)
          THEN /\ lastOp' = Op("patch", "already_patched", 0, None, FALSE, <<>>)
               /\ UNCHANGED construct
          ELSE /\ lastOp' = Op("patch", "ok", 0, None, FALSE, <<>>)
               /\ construct' = [construct EXCEPT
                                   !.Struct_parse = <<orig_attr>> \o orig]
    /\ UNCHANGED <<stack, streams, ledger, where, pc, context, instances,
                   params, other>>

\* unpatch(): getattr(Struct._parse, __orig_attr) raises AttributeError
\* when the function has no such attribute
unpatch ==
    /\ IF construct.Struct_parse = <<>>
       THEN /\ lastOp' = Op("unpatch", "AttributeError", 0, None, FALSE, <<>>)
            /\ UNCHANGED construct
       ELSE /\ lastOp' = Op("unpatch", "ok", 0, None, FALSE, <<>>)
            /\ construct' = [construct EXCEPT !.Struct_parse = Tail(@)]
    /\ UNCHANGED <<stack, streams, ledger, where, pc, context, instances,
                   params, other>>

\* Struct(... / Byte).parse_stream of a stream of kind io that holds
\* input: the call goes through what Struct._parse is at the time
Struct_parse(input, io) ==
    /\ pc = "parsing"
    /\ context' = CallParse(construct.Struct_parse, input, io)
    /\ lastOp' = Op("Struct_parse", "ok", 0, Some(io), FALSE, <<>>)
    /\ UNCHANGED <<stack, streams, ledger, where, pc, instances, params,
                   other, construct>>

\* patch(), unpatch() and parses of Structs of Byte fields, in any order
NextPatch ==
    \/ patch
    \/ unpatch
    \/ \E n \in 0..MaxSlots : \E input \in [1..n -> ParseBytes] :
           \E io \in StreamKinds : Struct_parse(input, io)

SpecPatch == InitParse /\ [][NextPatch]_vars

\* ---------------------------------------------------------------- claims
\* every enclosing Prefixed of ledger entry i has written its buffer out
Flushed(i) == where[i].stream = 1

\* entry i was built inside a Prefixed
Nested(i) == where[i].depth > 1

\* this step is WriteDeferredValue._build with the path evaluating to t
PatchStep(t) ==
    pc = "building" /\ lastOp'.op = "WriteDeferredValue" /\ lastOp'.slot = t

\* the outermost stream, which WriteDeferredValue writes to
Outer == get_root_stream(stack, 1)

TargetPresent(meta, s) ==
    meta.target_offset + Len(meta.placeholder_data) <= Len(s.data)

TargetBytes(meta, s) ==
    SubSeq(s.data, meta.target_offset + 1,
           meta.target_offset + Len(meta.placeholder_data))

\* C1: the target offset recorded for a slot built inside a length-prefixed
\* sub-structure is the offset its placeholder has in the outermost stream
\* once every enclosing Prefixed has written its buffer out
C1_NestedOffset ==
    \A i \in 1..Len(ledger) :
        Nested(i) /\ Flushed(i) => ledger[i].target_offset = where[i].off

\* C2: a WriteDeferredValue at a slot that was already written fails with a
\* DeferredError, whatever the two values are
C2_SecondPatchDeferredError ==
    [][\A t \in 1..Len(ledger) :
          ledger[t].new_value_written /\ PatchStep(t) /\ Outer # 0
              => lastOp'.res \in DeferredErrors]_vars

C4_UnpatchedBuildFails == pc = "done" => Unresolved = {}

\* C4: CheckDeferredValues passes exactly when every ledger entry was
\* written, and otherwise fails the build with the never-written error
C4_Completeness ==
    lastOp.op = "CheckDeferredValues"
        => /\ (lastOp.res = "ok") <=> (Unresolved = {})
           /\ Unresolved # {}
                  => lastOp.res = "DeferredError_never_written" /\ pc = "failed"

\* the check failed on a well-formed stream with one slot written and
\* another not
C4_Witness ==
    /\ lastOp.op = "CheckDeferredValues"
    /\ lastOp.res = "DeferredError_never_written"
    /\ stack = <<>>
    /\ streams[1].data # <<>>
    /\ \E i \in 1..Len(ledger) : ledger[i].new_value_written

\* C5: the error of a failed check names the path of every unwritten slot
C5_ListsEveryPath ==
    lastOp.op = "CheckDeferredValues" /\ lastOp.res # "ok"
        => \A i \in Unresolved :
               \E k \in 1..Len(lastOp.paths) : lastOp.paths[k] = ledger[i].path

C7_PatchRestoresPosition ==
    [][\A t \in 1..Len(ledger) :
          PatchStep(t) /\ lastOp'.res = "ok"
              => streams'[Outer].pos = streams[Outer].pos]_vars

\* a patch succeeded at a target that is not where the stream stands
C7_Witness ==
    /\ lastOp.op = "WriteDeferredValue"
    /\ lastOp.res = "ok"
    /\ streams[Outer].pos
           # ledger[lastOp.slot].target_offset
             + Len(ledger[lastOp.slot].placeholder_data)
    /\ streams[Outer].pos # ledger[lastOp.slot].target_offset

\* C8: DeferredValue over a subcon without a fixed size fails with the
\* DeferredError of the constructor and registers nothing; no ledger entry
\* has such a subcon
C8_NonConstantSize ==
    /\ \A i \in 1..Len(ledger) : Sizeof(ledger[i].subcon) >= 0
    /\ lastOp.op = "DeferredValue.__init__"
           => /\ (lastOp.res = "DeferredError_sizeof")
                     <=> (Sizeof(lastOp.val[1]) < 0)
              /\ ledger = <<>>

\* the constructor refused GreedyBytes
C8_Witness ==
    /\ lastOp.op = "DeferredValue.__init__"
    /\ lastOp.val = Some("GreedyBytes")
    /\ lastOp.res = "DeferredError_sizeof"

\* C9: building a DeferredValue writes the L bytes of the placeholder at the
\* position of the local stream, moves the position on by L, records the
\* bytes it wrote and appends one unwritten entry to the ledger
C9_AllocWritesPlaceholder ==
    [][pc = "building" /\ lastOp'.op = "DeferredValue" /\ lastOp'.res = "ok"
          => LET n == Len(ledger)
                 m == ledger'[n + 1]
                 L == Sizeof(m.subcon)
                 old == streams[Cur]
                 new == streams'[Cur]
             IN /\ Len(ledger') = n + 1
                /\ SubSeq(ledger', 1, n) = ledger
                /\ ~m.new_value_written
                /\ m.new_value = None
                /\ L > 0
                /\ new.pos = old.pos + L
                /\ Len(m.placeholder_data) = L
                /\ SubSeq(new.data, old.pos + 1, old.pos + L)
                       = m.placeholder_data
                /\ \E dv \in DeferredValues :
                       /\ dv.subcon = m.subcon
                       /\ m.placeholder_data = Encode(dv.subcon, dv.placeholder)
                /\ SubSeq(new.data, 1, old.pos) = SubSeq(old.data, 1, old.pos)
                /\ Len(new.data) = (IF Len(old.data) > old.pos + L
                                    THEN Len(old.data) ELSE old.pos + L)
                /\ Len(streams') = Len(streams)
                /\ \A k \in 1..Len(streams) :
                       k # Cur => streams'[k] = streams[k]]_vars

\* a two-byte placeholder was built behind other bytes
C9_Witness ==
    /\ lastOp.op = "DeferredValue"
    /\ lastOp.res = "ok"
    /\ Len(ledger[lastOp.slot].placeholder_data) = 2
    /\ streams[Cur].pos > 2

\* C10: a WriteDeferredValue whose path is no DeferredMeta fails with the
\* DeferredError of the target before the value is evaluated, and reads and
\* writes nothing
C10_InvalidTarget ==
    [][pc = "building" /\ lastOp'.op = "WriteDeferredValue" /\ lastOp'.slot = 0
          => /\ lastOp'.res = "DeferredError_not_meta"
             /\ ~lastOp'.evaluated
             /\ pc' = "failed"
             /\ streams' = streams
             /\ ledger' = ledger]_vars

\* the target was refused while slots and bytes were there to be touched
C10_Witness ==
    /\ lastOp.op = "WriteDeferredValue"
    /\ lastOp.slot = 0
    /\ lastOp.res = "DeferredError_not_meta"
    /\ ledger # <<>>
    /\ streams[1].data # <<>>

\* C11: on parsing, WriteDeferredValue returns without reading, moving the
\* stream, touching the ledger or the parsed fields and without failing;
\* the value of a DeferredValue field is the subcon's value of the bytes
\* the stream held at the field
C11_PatchNoOpOnDecode ==
    [][/\ (pc = "parsing" /\ lastOp'.op = "WriteDeferredValue")
              => /\ lastOp'.res = "ok"
                 /\ pc' = "parsing"
                 /\ streams' = streams
                 /\ ledger' = ledger
                 /\ where' = where
                 /\ context' = context
                 /\ instances' = instances
       /\ (pc = "parsing" /\ lastOp'.op = "DeferredValue" /\ lastOp'.res = "ok")
              => \E subcon \in {"Byte", "Int16ub"} :
                     LET old == streams[1].pos
                     IN /\ streams'[1].pos = old + Sizeof(subcon)
                        /\ context'[Len(context')].value
                               = IntValue(Decode(subcon,
                                     SubSeq(streams'[1].data, old + 1,
                                            old + Sizeof(subcon))))]_vars

\* WriteDeferredValue was parsed after a two-byte DeferredValue field
\* whose bytes are not zero
C11_Witness ==
    /\ pc = "parsing"
    /\ lastOp.op = "WriteDeferredValue"
    /\ streams[1].pos = 2
    /\ Len(context) = 1
    /\ context[1].value = IntValue(257)

\* what parsing the finished output gives for the field of ledger entry
\* i: the subcon's value of the bytes at the place the field was built
ParsedSlot(i) ==
    Decode(ledger[i].subcon,
           SubSeq(streams[1].data, where[i].off + 1,
                  where[i].off + Sizeof(ledger[i].subcon)))

\* C12: when a build with one DeferredValue, written by a later
\* WriteDeferredValue with value v, has finished, parsing its output gives
\* v for the field
C12_RoundTrip ==
    pc = "done" /\ Len(ledger) = 1 /\ ledger[1].new_value_written
        => ParsedSlot(1) = ledger[1].new_value[1]

\* the Struct being built is [digest slot, captured source] with nothing
\* before, between or after them, one checksum over this.data as a single region, and
\* no slot patched yet
C13_Structure ==
    /\ pc = "building"
    /\ Len(stack) = 1
    /\ Len(context) = 2
    /\ context[1].value.kind = "DeferredMeta"
    /\ context[1].offset1 = 0
    /\ context[2].name = "data"
    /\ context[2].offset1 = context[1].offset2
    /\ context[2].offset2 = Len(streams[1].data)
    /\ \E i \in 1..Len(context[2].value.attrs) :
           context[2].value.attrs[i].key = CHECKSUM_RAW_DATA_NAME
    /\ Len(instances) = 1
    /\ instances[1].data_expr = This("data")
    /\ ~instances[1].data_expr_is_list
    /\ Unresolved = 1..Len(ledger)

\* the bytes the source of C13_Structure was encoded to
C13_Source == GetAttr(context[2].value.attrs, CHECKSUM_RAW_DATA_NAME)

\* C13: building [digest slot, captured source, VerifyOrWriteChecksums]
\* succeeds and leaves H(source bytes) followed by the source bytes, the
\* source bytes being the bytes the source wrote, for every source
C13_EncodeDigestThenSource ==
    [][C13_Structure /\ lastOp'.op = "VerifyOrWriteChecksums"
           => /\ lastOp'.res = "ok"
              /\ C13_Source = SubSeq(streams[1].data, context[2].offset1 + 1,
                                     context[2].offset2)
              /\ streams'[1].data = hash_func(C13_Source) \o C13_Source
              /\ ledger'[1].new_value_written
              /\ instances'[1].hashed = Some(hash_func(C13_Source))]_vars

\* a source of two bytes whose digest, 1, is not the placeholder
C13_Witness ==
    /\ lastOp.op = "VerifyOrWriteChecksums"
    /\ lastOp.res = "ok"
    /\ Len(context) = 2
    /\ context[1].offset1 = 0
    /\ Len(instances) = 1
    /\ instances[1].data_expr = This("data")
    /\ ~instances[1].data_expr_is_list
    /\ streams[1].data = <<1, 1, 0>>

\* the first checksum read is over this.data as a single region, and the
\* data field was parsed through ChecksumSourceData
C14_Captured ==
    /\ pc = "parsing"
    /\ Len(instances) >= 1
    /\ instances[1].data_expr = This("data")
    /\ ~instances[1].data_expr_is_list
    /\ HasField(context, "data")
    /\ \E i \in 1..Len(GetField(context, "data").attrs) :
           GetField(context, "data").attrs[i].key = CHECKSUM_RAW_DATA_NAME

\* the bytes ChecksumSourceData kept of the data field
C14_Source == GetAttr(GetField(context, "data").attrs, CHECKSUM_RAW_DATA_NAME)

C15_Regions(k) ==
    /\ pc = "parsing"
    /\ Len(instances) >= 1
    /\ instances[1].data_expr = Slice("data", k)
    /\ instances[1].data_expr_is_list
    /\ HasField(context, "data")
    /\ GetField(context, "data").kind = "ListContainer"
    /\ \A i \in 1..Len(GetField(context, "data").items) :
           /\ GetField(context, "data").items[i].attrs # <<>>
           /\ GetField(context, "data").items[i].attrs[1].key
                  = CHECKSUM_RAW_DATA_NAME

\* the captured bytes of regions 1 to k of the data field, in that order
C15_Selected(k) ==
    [i \in 1..Min2(k, Len(GetField(context, "data").items)) |->
        GetField(context, "data").items[i].attrs[1].data[1]]

\* C15: in list mode the hash input is the captured bytes of the selected
\* regions, joined in list order: the parse verifies the checksum when the
\* stored digest is the hash of that and fails with ChecksumVerifyError for
\* any other stored digest, whatever the regions not selected hold
C15_ListModeConcatenation ==
    [][\A k \in 1..2 :
         C15_Regions(k) /\ lastOp'.op = "VerifyOrWriteChecksums"
           => IF instances[1].value = hash_func(C15_Selected(k))
              THEN /\ instances'[1].verified
                   /\ Len(instances) = 1 => lastOp'.res = "ok"
              ELSE /\ lastOp'.res = "ChecksumVerifyError"
                   /\ lastOp'.val = <<instances[1].value,
                                      hash_func(C15_Selected(k))>>
                   /\ ~instances'[1].verified]_vars

\* digest 1 of region <<0>>, verified, with a second region, not selected,
\* which would change the hash
C15_Witness ==
    /\ lastOp.op = "VerifyOrWriteChecksums"
    /\ lastOp.res = "ok"
    /\ Len(instances) = 1
    /\ instances[1].verified
    /\ instances[1].data_expr = Slice("data", 1)
    /\ instances[1].data_expr_is_list
    /\ streams[1].data = <<1, 0, 0>>

\* what the data expression of the first checksum gives in this state
C16_Result == evaluate(instances[1].data_expr, context).value

C16_Evaluated ==
    /\ pc = "parsing"
    /\ Len(instances) >= 1
    /\ evaluate(instances[1].data_expr, context).res = "ok"

\* the result is a list, the built-in one or the ListContainer of an Array
C16_IsList == C16_Result.kind \in {"list", "ListContainer"}

\* every element of the result carries the bytes of a region
C16_OfRegions ==
    \A i \in 1..Len(C16_Result.items) :
        HasRawData(ElementValue(C16_Result.items[i]))

\* the result itself carries the bytes of a region
C16_OwnCapture ==
    \E i \in 1..Len(C16_Result.attrs) :
        C16_Result.attrs[i].key = CHECKSUM_RAW_DATA_NAME

\* no digest was computed or compared for the first checksum
C16_NothingHashed ==
    /\ lastOp'.res \in ChecksumCalcErrors
    /\ pc' = "failed"
    /\ instances'[1].hashed = None
    /\ ~instances'[1].verified

\* C16 as stated: in list mode a result that is not a list, and in single
\* mode a result that is a list of regions, fail with the source-shape
\* error and nothing is hashed or compared
C16_ShapeMismatchFails ==
    [][C16_Evaluated /\ lastOp'.op = "VerifyOrWriteChecksums"
         /\ \/ instances[1].data_expr_is_list /\ ~C16_IsList
            \/ ~instances[1].data_expr_is_list /\ C16_IsList /\ C16_OfRegions
           => C16_NothingHashed]_vars

\* C16, amended: in list mode every result whose type is not the built-in
\* list, a ListContainer included, fails with ChecksumCalcError; in single
\* mode a list fails with ChecksumCalcError when it carries no capture of
\* its own, and is hashed over its own capture when it carries one
C16_ShapeChecked ==
    [][C16_Evaluated /\ lastOp'.op = "VerifyOrWriteChecksums"
           => /\ instances[1].data_expr_is_list /\ C16_Result.kind # "list"
                     => /\ C16_NothingHashed
                        /\ lastOp'.res = "ChecksumCalcError_shape"
              /\ ~instances[1].data_expr_is_list /\ C16_IsList
                   /\ ~C16_OwnCapture
                     => C16_NothingHashed
              /\ ~instances[1].data_expr_is_list /\ C16_IsList
                   /\ C16_OwnCapture
                     => instances'[1].hashed
                            = Some(hash_func(GetAttr(C16_Result.attrs,
                                                     CHECKSUM_RAW_DATA_NAME)))
          ]_vars

\* list mode over this.data, the data field being the ListContainer of an
\* Array: the shape error
C16_Witness ==
    /\ lastOp.op = "VerifyOrWriteChecksums"
    /\ lastOp.res = "ChecksumCalcError_shape"
    /\ instances[1].data_expr = This("data")
    /\ instances[1].data_expr_is_list
    /\ GetField(context, "data").kind = "ListContainer"
    /\ instances[1].hashed = None

\* what the data expression of the first checksum gives, parsing or
\* building
C17_Result == evaluate(instances[1].data_expr, context).value

C17_Evaluated ==
    /\ pc \in {"parsing", "building"}
    /\ Len(instances) >= 1
    /\ evaluate(instances[1].data_expr, context).res = "ok"
    /\ lastOp'.op = "VerifyOrWriteChecksums"

C17_Captured(value) ==
    \E i \in 1..Len(value.attrs) : value.attrs[i].key = CHECKSUM_RAW_DATA_NAME

\* the result, or in list mode an element of the list, went through no
\* ChecksumSourceData
C17_NoCapture ==
    IF instances[1].data_expr_is_list
    THEN /\ C17_Result.kind = "list"
         /\ \E i \in 1..Len(C17_Result.items) :
                ~C17_Captured(ElementValue(C17_Result.items[i]))
    ELSE ~C17_Captured(C17_Result)

\* the step failed with the missing-capture error, which names the path of
\* the checksum, and hashed, compared and wrote nothing
C17_Fails ==
    /\ lastOp'.res = "ChecksumCalcError_raw"
    /\ lastOp'.paths = <<instances[1].path>>
    /\ pc' = "failed"
    /\ instances'[1].hashed = None
    /\ ~instances'[1].verified
    /\ ledger' = ledger
    /\ streams' = streams

\* C17 as stated: parsing or building, a result that carries no capture
\* makes VerifyOrWriteChecksums fail with the missing-capture error naming
\* the path of the checksum, and nothing is hashed or compared
C17_NoCaptureFails ==
    [][C17_Evaluated /\ C17_NoCapture => C17_Fails]_vars

\* C17, amended: a result that is a byte string is hashed as it is; a
\* result that is neither a byte string nor carries a capture makes the
\* step fail with the missing-capture error naming the path of the
\* checksum, parsing and building alike; a captured result never does
C17_MissingRawData ==
    [][C17_Evaluated
           => /\ C17_NoCapture /\ C17_Result.kind # "bytes" => C17_Fails
              /\ ~instances[1].data_expr_is_list /\ C17_Result.kind = "bytes"
                     => instances'[1].hashed
                            = Some(hash_func(C17_Result.items[1].val))
              /\ ~instances[1].data_expr_is_list /\ C17_Captured(C17_Result)
                     => ~(/\ lastOp'.res \in ChecksumCalcErrors
                          /\ lastOp'.paths = <<instances[1].path>>)]_vars

\* a build of [digest, data not wrapped in ChecksumSourceData, verify]: the
\* error, and the digest placeholder still in place
C17_Witness ==
    /\ lastOp.op = "VerifyOrWriteChecksums"
    /\ lastOp.res = "ChecksumCalcError_raw"
    /\ Len(ledger) = 1
    /\ ~ledger[1].new_value_written
    /\ instances[1].slot = 1
    /\ instances[1].data_expr = This("data")
    /\ GetField(context, "data").kind = "Container"
    /\ streams[1].data = <<0, 1>>

\* C18: a parse called with skip_verify_checksums=True raises no
\* ChecksumVerifyError, whatever digest is stored
C18_SkipVerify ==
    params.skip_verify_checksums => lastOp.res # "ChecksumVerifyError"

\* the bytes of the stream between the positions before and after the step
C19_Consumed ==
    SubSeq(streams'[1].data, streams[1].pos + 1, streams'[1].pos)

\* C19: on parse AttributeRawCopy returns the value of its subcon with the
\* same fields, and sets on it, under its key, exactly the bytes the subcon
\* consumed; the key is an attribute of the value and none of its fields
C19_CaptureOnDecode ==
    [][pc = "parsing" /\ lastOp'.op = "AttributeRawCopy"
         /\ context' # context
           => LET called == lastOp'.val[1]
                  inner == CodecValue(called.codec, C19_Consumed)
                  value == context'[Len(context')].value
              IN /\ lastOp'.res = "ok"
                 /\ context' = Append(context, Field("data", value))
                 /\ Len(C19_Consumed) = called.codec.n
                 /\ value.kind = inner.kind
                 /\ value.items = inner.items
                 /\ value.attrs = <<Attr(called.key, C19_Consumed)>>
                 /\ \A i \in 1..Len(value.items) :
                        value.items[i].name # called.key]_vars

\* a Struct parsed from the second byte of the stream, captured under the
\* default key
C19_Witness ==
    /\ pc = "parsing"
    /\ lastOp.op = "AttributeRawCopy"
    /\ lastOp.res = "ok"
    /\ lastOp.val[1].key = RAW_KEY
    /\ Len(context) = 2
    /\ context[2].value.kind = "Container"
    /\ context[2].value.attrs = <<Attr(RAW_KEY, <<1>>)>>
    /\ streams[1].data = <<0, 1>>

\* the data field of the build went through AttributeRawCopy
C20_Captured ==
    /\ HasField(context, "data")
    /\ GetField(context, "data").attrs # <<>>

C20_Region == context[CHOOSE i \in 1..Len(context) : context[i].name = "data"]

\* the bytes AttributeRawCopy set on the value when it was built
C20_EncodeCapture == C20_Region.value.attrs[1].data

\* the bytes AttributeRawCopy sets when the built stream is parsed: those a
\* subcon of the same size consumes from where the data field begins
C20_DecodeCapture ==
    RawCopy_parse(Codec("Struct", C20_Region.offset2 - C20_Region.offset1),
                  stream_seek(streams[1], C20_Region.offset1)).data

\* C20 as stated: the capture set when building a value equals the capture
\* set when parsing the bytes the build produced
C20_SameCapture ==
    pc = "done" /\ C20_Captured => C20_EncodeCapture = C20_DecodeCapture

\* the step of AttributeRawCopy._build that returned a value
C20_Step ==
    /\ pc = "building"
    /\ lastOp'.op = "AttributeRawCopy"
    /\ context' # context

\* a deferred value inside the data field was written after the capture
C20_PatchedInside ==
    \E i \in 1..Len(ledger) :
        /\ ledger[i].new_value_written
        /\ ledger[i].target_offset >= C20_Region.offset1
        /\ ledger[i].target_offset < C20_Region.offset2

\* C20, amended: on build AttributeRawCopy writes exactly what its subcon
\* writes and sets, under its key, exactly those bytes as they are when it
\* returns; the capture equals the one a parse of the built bytes sets
\* unless a deferred value inside the data field was written afterwards
C20_CaptureOnEncode ==
    /\ [][C20_Step
            => LET called == lastOp'.val[1]
                   region == context'[Len(context')]
               IN \E obj \in BuildObjs(called.codec) :
                    LET built == subcon_build(called.codec, obj, streams[Cur])
                    IN /\ streams'[Cur] = built.stream
                       /\ region.value.items = built.value.items
                       /\ region.value.attrs
                              = <<Attr(called.key,
                                       SubSeq(built.stream.data,
                                              streams[Cur].pos + 1,
                                              built.stream.pos))>>
                       /\ region.offset1 = streams[Cur].pos
                       /\ region.offset2 = built.stream.pos]_vars
    /\ [](pc = "done" /\ C20_Captured /\ ~C20_PatchedInside
              => C20_EncodeCapture = C20_DecodeCapture)

\* a finished build whose captured data field holds a deferred value that
\* was written after the capture: the capture is the placeholder, the
\* stream holds the value
C20_Witness ==
    /\ pc = "done"
    /\ C20_Captured
    /\ C20_PatchedInside
    /\ C20_EncodeCapture = <<0>>
    /\ C20_DecodeCapture = <<1>>

\* the value the subcon of the AttributeRawCopy step made of the bytes it
\* consumed
C21_Inner == CodecValue(lastOp'.val[1].codec, C19_Consumed)

\* the step of AttributeRawCopy._parse whose subcon gave a value that has
\* the key of the wrapper as an attribute or as a field
C21_KeyTaken ==
    /\ pc = "parsing"
    /\ lastOp'.op = "AttributeRawCopy"
    /\ streams' # streams
    /\ Len(C19_Consumed) = lastOp'.val[1].codec.n
    /\ \/ \E i \in 1..Len(C21_Inner.attrs) :
              C21_Inner.attrs[i].key = lastOp'.val[1].key
       \/ /\ C21_Inner.kind = "Container"
          /\ \E i \in 1..Len(C21_Inner.items) :
                 C21_Inner.items[i].name = lastOp'.val[1].key

\* C21: when the value of the subcon already has the key as an attribute or
\* a field, AttributeRawCopy fails with RawCopyError, the value keeps its
\* fields and attributes, and no field is added to the result
C21_DuplicateKey ==
    [][C21_KeyTaken
           => /\ lastOp'.res = "RawCopyError"
              /\ pc' = "failed"
              /\ context' = context
              /\ process_rawcopy([value |-> C21_Inner, data |-> C19_Consumed],
                                 lastOp'.val[1].key).value = C21_Inner]_vars

\* 'x' @ AttributeRawCopy(Struct('x' / Byte)), as test_duplicate
C21_Witness ==
    /\ pc = "failed"
    /\ lastOp.op = "AttributeRawCopy"
    /\ lastOp.res = "RawCopyError"
    /\ lastOp.val[1].key = "x"
    /\ lastOp.val[1].codec = Codec("Struct", 1)
    /\ streams[1].data = <<1>>

\* the step of a captured InlineStruct that returned
C22_Step ==
    /\ pc \in {"parsing", "building"}
    /\ lastOp'.op = "AttributeRawCopy_inline"
    /\ lastOp'.res = "ok"
    /\ streams' # streams

\* the bytes the step consumed or wrote
C22_Bytes ==
    SubSeq(streams'[1].data, streams[1].pos + 1, streams'[1].pos)

\* a Computed field over the key under which an InlineStruct was captured
C22_Reads ==
    /\ pc \in {"parsing", "building"}
    /\ lastOp'.op = "Computed"
    /\ HasField(context, InlineName)
    /\ \E i \in 1..Len(GetField(context, InlineName).attrs) :
           GetField(context, InlineName).attrs[i].key = lastOp'.val[1]

\* what C22_Step leaves: the outer Struct in progress and the bytes in its
\* context under the key
C22_Attached ==
    /\ pc' = pc
    /\ evaluate(This(lastOp'.val[1].key), context').res = "ok"
    /\ evaluate(This(lastOp'.val[1].key), context').value
           = BytesValue(C22_Bytes)

\* what C22_Reads leaves: the Computed field holds the captured bytes
C22_Read ==
    /\ lastOp'.res = "ok"
    /\ pc' = pc
    /\ GetField(context', "b")
           = BytesValue(GetField(context, InlineName).attrs[1].data)

\* C22: when AttributeRawCopy wraps an inlined Struct, the raw bytes are in
\* the context of the outer Struct, under the key, as soon as the step
\* returns, parsing or building, while the outer Struct is still in
\* progress, so that this.key evaluates to them in a later field
C22_InlineCapture ==
    [][(C22_Step => C22_Attached) /\ (C22_Reads => C22_Read)]_vars

\* a build in which Computed(this.__raw__) gave the byte the captured
\* InlineStruct wrote, before the Struct was left
C22_Witness ==
    /\ pc = "building"
    /\ stack # <<>>
    /\ lastOp.op = "Computed"
    /\ lastOp.res = "ok"
    /\ lastOp.val = <<RAW_KEY>>
    /\ GetField(context, "b") = BytesValue(<<1>>)
    /\ streams[1].data = <<1, 1>>

\* the step is taken by the other call: the running one was suspended
C23_Switched == other'.call # other.call

\* C23: every build call has its own ledger, at every depth of nesting: a
\* call resumes with exactly the ledger it had when it stopped, the steps
\* of the running call leave the ledger of the other call as it is, and
\* CheckDeferredValues passes or fails by the slots of its own call only
C23_OwnLedger ==
    [][IF C23_Switched
       THEN /\ ledger' = other.root.deferred_list
            /\ other'.root.deferred_list = ledger
       ELSE /\ other'.root.deferred_list = other.root.deferred_list
            /\ pc = "building" /\ lastOp'.op = "CheckDeferredValues"
                 => (lastOp'.res = "ok"
                         <=> \A i \in 1..Len(ledger) :
                                 ledger[i].new_value_written)]_vars

\* CheckDeferredValues passed in a call with one slot, written at depth 2,
\* while the other call, suspended in mid-build, has an unwritten slot
C23_Witness ==
    /\ lastOp.op = "CheckDeferredValues"
    /\ lastOp.res = "ok"
    /\ Len(stack) = 2
    /\ Len(ledger) = 1
    /\ other.pc = "building"
    /\ Len(other.root.deferred_list) = 2
    /\ ~other.root.deferred_list[1].new_value_written

\* a DeferredValue is built with a value of the caller that is not None
C24_Step ==
    \E subcon \in Subcons, placeholder \in Placeholders :
        DeferredValue_build([subcon |-> subcon, placeholder |-> placeholder],
                            Some(0))

\* C24: building a DeferredValue with a value other than None raises
\* DeferredError before a byte of the placeholder is written and before a
\* slot is registered: streams and ledger are as they were
C24_BuildExpectsNone ==
    [][C24_Step => /\ pc' = "failed"
                   /\ lastOp'.op = "DeferredValue"
                   /\ lastOp'.res = "DeferredError_expected_none"
                   /\ streams' = streams
                   /\ ledger' = ledger]_vars

\* the build failed so, after one slot was registered and inside a Struct
\* that had bytes written
C24_Witness ==
    /\ pc = "failed"
    /\ lastOp.op = "DeferredValue"
    /\ lastOp.res = "DeferredError_expected_none"
    /\ Len(ledger) = 1
    /\ Len(streams) = 1
    /\ Len(streams[1].data) = 2

\* the step asks for the offset in the outer stream
C25_Asked == pc = "building" /\ lastOp'.op = "get_offset_in_outer_stream"

\* the step registers a slot
C25_Registered ==
    pc = "building" /\ lastOp'.op = "DeferredValue" /\ lastOp'.res = "ok"

\* C25: computing the offset in the outer stream changes no stream, no
\* frame and no ledger entry, and computing it again gives the same
\* offset; the offset a new slot is registered with is the one computed in
\* the state before, and the stream then differs by the placeholder alone
C25_PureOffset ==
    [][/\ C25_Asked =>
            /\ streams' = streams
            /\ stack' = stack
            /\ ledger' = ledger
            /\ where' = where
            /\ lastOp'.val = Some(GetOffsetInOuterStream(streams, stack, Cur))
            /\ lastOp'.val = Some(get_offset_in_outer_stream(
                                      streams', stack', Len(streams')).offset)
       /\ C25_Registered =>
            /\ ledger'[Len(ledger')].target_offset
                   = get_offset_in_outer_stream(streams, stack, Cur).offset
            /\ SubSeq(ledger', 1, Len(ledger)) = ledger
            /\ stack' = stack
            /\ streams' = [streams EXCEPT ![Cur] =
                               stream_write(@, ledger'[Len(ledger')]
                                                   .placeholder_data)]]_vars

\* the offset was asked for inside a Prefixed inside a Struct, after a
\* byte was written to the outer stream and one to the Prefixed buffer
C25_Witness ==
    /\ pc = "building"
    /\ lastOp.op = "get_offset_in_outer_stream"
    /\ Len(stack) = 2
    /\ stack[2].kind = "Prefixed"
    /\ Len(streams) = 2
    /\ stream_tell(streams[1]) = 1
    /\ stream_tell(streams[2]) = 1
    /\ lastOp.val = Some(3)

\* the patch is installed: Struct._parse is a patched function
C26_Installed == hasattr_orig(construct.Struct_parse)

\* the original statement of C26 on decoded results: a result has an _io
\* exactly when the patch is not installed
C26_IoIffNotInstalled ==
    lastOp.op = "Struct_parse" => (HasField(context, "_io") <=> ~C26_Installed)

\* C26: patch() called while the patch is installed leaves Struct._parse as
\* it is, so that the original is never wrapped twice and one unpatch()
\* restores it; a decoded result has an _io exactly when the patch is not
\* installed or the stream is no io.IOBase
C26_PatchIdempotent ==
    /\ [][/\ lastOp'.op = "patch" /\ C26_Installed => UNCHANGED construct
          /\ lastOp'.op = "patch" => construct'.Struct_parse
                                         = <<orig_attr>> \o Struct_parse_orig
          /\ lastOp'.op = "unpatch" /\ C26_Installed
                 => construct'.Struct_parse = Struct_parse_orig]_vars
    /\ [](lastOp.op = "Struct_parse"
              => (HasField(context, "_io")
                      <=> (~C26_Installed \/ lastOp.val # Some("BytesIO"))))

\* patch() was called while the patch was installed, after a parse without
\* the patch left an _io in the result
C26_Witness ==
    /\ lastOp.op = "patch"
    /\ lastOp.res = "already_patched"
    /\ C26_Installed
    /\ HasField(context, "_io")
    /\ GetField(context, "_io").kind = "BytesIO"
    /\ Len(context) = 2

\* what a ledger entry is registered with
C27_Registration(meta) ==
    <<meta.subcon, meta.path, meta.target_offset, meta.placeholder_data>>

\* C27: the ledger of a build only grows at its end: no step removes or
\* moves an entry, and the path, the target offset and the placeholder
\* bytes of an entry stay as they were registered, whatever DeferredValue,
\* WriteDeferredValue or end of a Prefixed follows
C27_AppendOnly ==
    [][/\ Len(ledger') >= Len(ledger)
       /\ \A i \in 1..Len(ledger) :
              C27_Registration(ledger'[i]) = C27_Registration(ledger[i])]_vars

\* two slots, the first registered inside a Prefixed whose buffer has been
\* written out since, and patched after the second was registered
C27_Witness ==
    /\ Len(ledger) = 2
    /\ where[1].depth = 2
    /\ Len(streams) = 1
    /\ ledger[1].new_value_written
    /\ ~ledger[2].new_value_written
    /\ lastOp.op = "WriteDeferredValue"
    /\ lastOp.res = "ok"

\* the step is a WriteDeferredValue that wrote ledger entry i
C28_Patched(i) ==
    /\ pc = "building"
    /\ lastOp'.op = "WriteDeferredValue"
    /\ lastOp'.res = "ok"
    /\ lastOp'.slot = i
    /\ ledger'[i].new_value = lastOp'.val

\* C28: new_value_written of a ledger entry starts False, becomes True by
\* a WriteDeferredValue that succeeds at that entry and by nothing else,
\* and once it is True no step changes it or new_value, a further
\* WriteDeferredValue at the entry, which fails, included
C28_Monotonic ==
    [][\A i \in 1..Len(ledger') :
           IF i > Len(ledger)
           THEN ~ledger'[i].new_value_written /\ ledger'[i].new_value = None
           ELSE IF ledger[i].new_value_written
           THEN /\ ledger'[i].new_value_written
                /\ ledger'[i].new_value = ledger[i].new_value
           ELSE IF ledger'[i].new_value_written
           THEN C28_Patched(i)
           ELSE ledger'[i].new_value = ledger[i].new_value]_vars

\* a WriteDeferredValue at an entry that was written before failed, and
\* the entry has the value the first one wrote
C28_Witness ==
    /\ pc = "failed"
    /\ lastOp.op = "WriteDeferredValue"
    /\ lastOp.slot = 1
    /\ lastOp.res \in {"AssertionError", "DeferredError_placeholder"}
    /\ ledger[1].new_value_written
    /\ ledger[1].new_value = Some(1)

\* the bytes a ledger entry is to be written to
C29_Range(meta) ==
    meta.target_offset + 1 .. meta.target_offset + Len(meta.placeholder_data)

\* C29: any two entries of the ledger have disjoint target ranges
\* [target_offset, target_offset + length of the placeholder), whether they
\* were registered in the same Prefixed, in different ones or in none
C29_DisjointTargets ==
    \A i, j \in 1..Len(ledger) :
        i # j => C29_Range(ledger[i]) \cap C29_Range(ledger[j]) = {}

\* the step is a WriteDeferredValue at ledger entry t, or at something
\* that is no DeferredMeta (t = 0), that failed
C30_Failed(t) ==
    /\ pc = "building"
    /\ lastOp'.op = "WriteDeferredValue"
    /\ lastOp'.slot = t
    /\ lastOp'.res \in {"DeferredError_not_meta", "DeferredError_placeholder",
                        "AssertionError"}

\* C30: a WriteDeferredValue that fails, because its target is no
\* DeferredMeta, because the bytes at the target are not the placeholder or
\* because the entry was written before, changes no byte of any stream of
\* the build, the outermost one included, and leaves the ledger, with
\* new_value_written and new_value of its target, as it was
C30_FailedPatchWritesNothing ==
    [][\A t \in 0..MaxSlots :
           C30_Failed(t) =>
               /\ ledger' = ledger
               /\ Len(streams') = Len(streams)
               /\ \A k \in 1..Len(streams) :
                      streams'[k].data = streams[k].data]_vars

\* a WriteDeferredValue failed at an entry whose placeholder another
\* writer had changed: the changed byte is still there
C30_Witness ==
    /\ pc = "failed"
    /\ lastOp.op = "WriteDeferredValue"
    /\ lastOp.res = "DeferredError_placeholder"
    /\ lastOp.slot = 1
    /\ ~ledger[1].new_value_written
    /\ ledger[1].new_value = None
    /\ streams[1].data = <<1>>

\* C31: a WriteDeferredValue at an entry whose placeholder is still in the
\* buffer of a Prefixed that has not ended does not write the entry and
\* changes no byte of the final stream
C31_PatchAfterFlush ==
    [][\A t \in 1..Len(ledger) :
           PatchStep(t) /\ ~Flushed(t)
               => /\ lastOp'.res # "ok"
                  /\ ledger'[t] = ledger[t]
                  /\ streams'[1].data = streams[1].data]_vars

\* the step is a WriteDeferredValue at ledger entry t that failed inside
\* the body of a seek_temporary: the read or the comparison of
\* _check_placeholder, or the subcon._build of _build_value, raised
C32_BodyRaised(t) ==
    /\ PatchStep(t)
    /\ Outer # 0
    /\ lastOp'.res \in {"DeferredError_placeholder", "StreamError",
                        "FormatFieldError"}

\* C32: when the body of a seek_temporary raises, as when the placeholder
\* check of a WriteDeferredValue fails, the stream is seeked back to the
\* position it had before the seek_temporary began
C32_SeekBackOnRaise ==
    [][\A t \in 1..Len(ledger) :
           C32_BodyRaised(t) => streams'[Outer].pos = streams[Outer].pos]_vars

\* a VerifyOrWriteChecksums is built, in the Struct of the checksum fields
\* or in a Struct nested in it
C33_Step == pc = "building" /\ lastOp'.op = "VerifyOrWriteChecksums"

\* the digest of the data source of checksum meta i, evaluated in the
\* context of the Struct the field is declared in
C33_OwnDigest(i) == iter_value(instances[i], context).digest

\* the step wrote the slot of checksum meta i, which was unwritten, with
\* the meta's own digest, at the slot's target in the outermost stream
C33_Resolved(i) ==
    LET t == instances[i].slot
    IN /\ ~ledger[t].new_value_written
       /\ ledger'[t].new_value_written
       /\ ledger'[t].new_value = Some(C33_OwnDigest(i))
       /\ TargetBytes(ledger[t], streams'[1]) = C33_OwnDigest(i)

\* C33: one VerifyOrWriteChecksums on encode that returns has written the
\* slot of every registered checksum, each once and each with the digest of
\* its own data source, evaluated in the context where the checksum field
\* was declared; the slots are taken in the order they were registered, so
\* that one that fails has written those before the failing one and none
\* after it; no written slot is written again
C33_EveryChecksumOnce ==
    [][/\ \A i, j \in 1..Len(instances) :
              i < j => instances[i].slot < instances[j].slot
       /\ \A t \in 1..Len(ledger) :
              ledger[t].new_value_written => ledger'[t] = ledger[t]
       /\ C33_Step /\ lastOp'.res = "ok"
              => \A i \in 1..Len(instances) : C33_Resolved(i)
       /\ C33_Step /\ lastOp'.res # "ok"
              => \E k \in 1..Len(instances) :
                     /\ \A i \in 1..(k - 1) : C33_Resolved(i)
                     /\ \A i \in k..Len(instances) :
                            ledger'[instances[i].slot]
                                = ledger[instances[i].slot]]_vars

\* two checksums, of the whole data and of its first region, were written
\* by one VerifyOrWriteChecksums built in a nested Struct whose own data
\* hashes to something else, and they got different digests
C33_Witness ==
    /\ pc = "building"
    /\ lastOp.op = "VerifyOrWriteChecksums"
    /\ lastOp.res = "ok"
    /\ lastOp.val = Some(<<1>>)
    /\ Len(instances) = 2
    /\ ledger[1].new_value = Some(<<0>>)
    /\ ledger[2].new_value = Some(<<1>>)
    /\ streams[1].data = <<0, 1, 0, 0>>

====
